---- MODULE Spec2Model ----
(***************************************************************************)
(* Model of the AponiaJS authentication core:                              *)
(*   - OAuthProvider (login / callback), packages/core/src/providers       *)
(*   - OIDCProvider  (initialize / signIn / callback) with its lazily      *)
(*     initialised, shared authorization-server metadata                   *)
(* Strings of the program are strings here; opaque random values (state,   *)
(* PKCE verifier, nonce) are fresh integers; 0 and "" stand for an absent  *)
(* (undefined) value of the respective type.                               *)
(***************************************************************************)
EXTENDS Integers, Sequences, FiniteSets, TLC

\* ------------------------------------------------------------------------
\* Bounds of the model
\* ------------------------------------------------------------------------

\* number of requests a behaviour starts
MaxRequests == 3

\* ------------------------------------------------------------------------
\* Canonical data: cookies, URLs, responses
\* ------------------------------------------------------------------------

Checks == {"state", "pkce", "nonce"}

\* Cookie of response.ts: name, value, options (only maxAge matters here)
Cookie(name, value, maxAge) == [name |-> name, value |-> value, maxAge |-> maxAge]

NoCookie == Cookie("", 0, 0)

\* `${request.url.origin}${this.pages.callback}`
RedirectUri(origin, path) == [origin |-> origin, path |-> path]

NoRedirectUri == RedirectUri("", "")

\* a URL with the search parameters the providers read or write
NoUrl ==
  [endpoint |-> "", client_id |-> "", client_secret |-> "", response_type |-> "",
   scope |-> "", state |-> 0, code_challenge |-> 0, code_challenge_method |-> "",
   nonce |-> 0, redirect_uri |-> NoRedirectUri]

\* InternalResponse; threw = TRUE stands for a rejected promise (thrown Error),
\* which carries no response at all
InternalResponse(status, redirect, cookies, user, session) ==
  [threw |-> FALSE, status |-> status, redirect |-> redirect, cookies |-> cookies,
   user |-> user, session |-> session]

Thrown ==
  [threw |-> TRUE, status |-> 0, redirect |-> NoUrl, cookies |-> <<>>,
   user |-> 0, session |-> 0]

NoResponse == InternalResponse(0, NoUrl, <<>>, 0, 0)

\* ------------------------------------------------------------------------
\* Checks subsystem (security/checks): create / use of state, pkce, nonce
\* ------------------------------------------------------------------------

\* max-age of a check cookie
CheckMaxAge == 900

\* oauth.skipStateCheck: the expected state when the state check is disabled
SkipStateCheck == -1

\* the verifier handed to the code exchange when pkce is disabled
NoPkceVerifier == -2

\* Token Codec applied to a check value: an opaque token bound to the value
EncodeCheck(v) == 1000 + v

\* decode returns the value, or 0 (null) for an absent or invalid token
DecodeCheck(t) == IF t > 1000 THEN t - 1000 ELSE 0

\* PKCE: challenge = S256(verifier)
S256(verifier) == 500 + verifier

\* the fresh random value drawn by the n-th request for check kind k
FreshValue(n, k) ==
  10 * n + (CASE k = "state" -> 1 [] k = "pkce" -> 2 [] k = "nonce" -> 3)

\* create(provider) -> [value, cookie]: the value placed in the URL and the
\* cookie bound to it (for pkce: the challenge, and the verifier's cookie)
CheckCreate(k, n) ==
  LET v == FreshValue(n, k)
  IN  [value  |-> IF k = "pkce" THEN S256(v) ELSE v,
       cookie |-> Cookie(k, EncodeCheck(v), CheckMaxAge)]

\* the clearing instruction of a consumed check cookie
ClearingCookie(k) == Cookie(k, 0, 0)

\* use(request, provider) -> [value, clearing cookie | undefined]; throws when
\* the check is enabled and its cookie is missing or does not decode
CheckUse(k, checks, token) ==
  IF k \notin checks
    THEN [threw |-> FALSE,
          value |-> (CASE k = "state" -> SkipStateCheck
                       [] k = "pkce"  -> NoPkceVerifier
                       [] k = "nonce" -> 0),
          cookie |-> NoCookie]
  ELSE IF DecodeCheck(token) = 0
    THEN [threw |-> TRUE, value |-> 0, cookie |-> NoCookie]
  ELSE [threw |-> FALSE, value |-> DecodeCheck(token), cookie |-> ClearingCookie(k)]

\* the cookie of check k as the request's record holds it: `use` reads the
\* cookie only when the check is enabled
CookieRead(k, checks, token) == IF k \in checks THEN token ELSE 0

\* `if (cookie) cookies.push(cookie)`
PushIfCookie(cookies, cookie) ==
  IF cookie # NoCookie THEN Append(cookies, cookie) ELSE cookies

\* ------------------------------------------------------------------------
\* Authorization-Server Client (oauth4webapi) as the providers call it
\* ------------------------------------------------------------------------

\* raw responses of the token endpoint: a token response, a 401 carrying a
\* www-authenticate challenge, an OAuth2 error body, and a body that only a
\* conform hook turns into a token response
TokenResponses == {"ok", "challenge", "error", "nonconforming"}

\* oauth.validateAuthResponse(as, client, searchParams, state): "throw" when the
\* state parameter is not the expected one, "error" for an OAuth2 error
\* response (?error=...), else the code grant parameters ("ok")
validateAuthResponse(expectedState, q) ==
  IF expectedState = SkipStateCheck
    THEN IF q.error THEN "error" ELSE "ok"
  ELSE IF expectedState = 0
    THEN IF q.state # 0 THEN "throw" ELSE IF q.error THEN "error" ELSE "ok"
  ELSE IF q.state = 0 \/ q.state # expectedState THEN "throw"
  ELSE IF q.error THEN "error" ELSE "ok"

\* oauth.isOAuth2Error
isOAuth2Error(result) == result = "error"

\* oauth.authorizationCodeGrantRequest throws before sending anything when
\* the callback parameters hold no code
GrantRequestSendable(q) == q.code

\* oauth.parseWwwAuthenticateChallenges
parseWwwAuthenticateChallenges(response) == response = "challenge"

\* oauth.processAuthorizationCodeOAuth2Response /
\* oauth.processAuthorizationCodeOpenIDResponse on the conformed response
processAuthorizationCodeResponse(response) ==
  CASE response = "ok" -> "ok"
    [] response = "error" -> "error"
    [] OTHER -> "throw"

\* endpoints.token.conform: the hooks a provider may configure
ConformHooks == {"none", "undefined", "fix"}

ApplyHook(hook, response) ==
  IF hook = "fix" /\ response = "nonconforming" THEN "ok" ELSE response

\* ------------------------------------------------------------------------
\* Requests
\* ------------------------------------------------------------------------

Origins == {"https://a.example", "https://b.example"}

\* cookie values a request may carry for check k: none, a token that does not
\* decode, a valid token of the first request's value
RequestTokens(k) == {0, 1, EncodeCheck(FreshValue(1, k))}

\* the callback's query parameters: state, code (present or not), error
QueryParams ==
  { [state |-> s, code |-> ce[1], error |-> ce[2]] :
      s \in {0, FreshValue(1, "state"), FreshValue(2, "state")},
      ce \in {<<TRUE, FALSE>>, <<FALSE, FALSE>>, <<FALSE, TRUE>>} }

InternalRequest(origin, stateCookie, pkceCookie, nonceCookie, q) ==
  [origin |-> origin, stateCookie |-> stateCookie, pkceCookie |-> pkceCookie,
   nonceCookie |-> nonceCookie, q |-> q]

NoRequest == InternalRequest("", 0, 0, 0, [state |-> 0, code |-> FALSE, error |-> FALSE])

\* a login request: only its origin is read
LoginRequests == {InternalRequest(o, 0, 0, 0, NoRequest.q) : o \in Origins}

\* what the environment answers during one callback: the token endpoint's
\* raw response (or a network failure), the profile (0: none), and the
\* cookies already on the application's onAuth result; the later answers
\* vary only where the callback can get to them
Environments ==
  { [grant |-> g, profile |-> 0, appCookies |-> <<>>] :
      g \in TokenResponses \cup {"network"} }
  \cup
  { [grant |-> g, profile |-> 7, appCookies |-> a] :
      g \in {"ok", "nonconforming"}, a \in {<<>>, <<Cookie("app", 5, 60)>>} }

\* ------------------------------------------------------------------------
\* OAuthProvider
\* ------------------------------------------------------------------------

\* a static parameter is applied only when `typeof value === 'string'`
IsString(v) == v \notin {"", "<nonstring>"}

\* statically configured parameters of the authorization endpoint
StaticParams ==
  { [client_id |-> "client", response_type |-> "code", scope |-> "",
     redirect_uri |-> NoRedirectUri],
    [client_id |-> "client", response_type |-> "code", scope |-> "email",
     redirect_uri |-> RedirectUri("https://static.example", "/cb")],
    [client_id |-> "client", response_type |-> "code", scope |-> "<nonstring>",
     redirect_uri |-> NoRedirectUri] }

\* the OAuthConfig an OAuthProvider is constructed from
OAuthConfigs ==
  [checks : SUBSET Checks,
   params : StaticParams,
   conform : ConformHooks,
   userinfoRequest : BOOLEAN]

\* pages.callback
OAuthCallbackPage == "/auth/callback/oauth"

\* new URL(endpoints.authorization.url) with the static string parameters set
OAuthAuthorizationUrl(p) ==
  [NoUrl EXCEPT !.endpoint = "https://as.example/authorize",
                !.client_id = IF IsString(p.params.client_id) THEN p.params.client_id ELSE "",
                !.response_type = IF IsString(p.params.response_type)
                                    THEN p.params.response_type ELSE "",
                !.scope = IF IsString(p.params.scope) THEN p.params.scope ELSE "",
                !.redirect_uri = p.params.redirect_uri]

\* a mutant of SetCheckParam: the challenge is sent without its method
SetCheckParamNoMethod(url, k, value) ==
  CASE k = "state" -> [url EXCEPT !.state = value]
    [] k = "pkce"  -> [url EXCEPT !.code_challenge = value]
    [] k = "nonce" -> [url EXCEPT !.nonce = value]

\* url.searchParams.set(...) of the value a check's create returned
SetCheckParam(url, k, value) ==
  CASE k = "state" -> [url EXCEPT !.state = value]
    [] k = "pkce"  -> [url EXCEPT !.code_challenge = value, !.code_challenge_method = "S256"]
    [] k = "nonce" -> [url EXCEPT !.nonce = value]

\* one `if (this.checks?.includes(k)) { create; set; push }` block of login
LoginCheck(acc, k, checks, n) ==
  IF k \in checks
    THEN LET created == CheckCreate(k, n)
         IN  [url |-> SetCheckParam(acc.url, k, created.value),
              cookies |-> Append(acc.cookies, created.cookie)]
    ELSE acc

\* `if (!url.searchParams.has('redirect_uri')) url.searchParams.set(...)`
SetRedirectUri(url, origin, page) ==
  IF url.redirect_uri = NoRedirectUri
    THEN [url EXCEPT !.redirect_uri = RedirectUri(origin, page)]
    ELSE url

\* OAuthProvider.login, handling the n-th request
OAuthProvider_login(p, rq, n) ==
  LET a0 == [url |-> OAuthAuthorizationUrl(p), cookies |-> <<>>]
      a1 == LoginCheck(a0, "state", p.checks, n)
      a2 == LoginCheck(a1, "pkce", p.checks, n)
      a3 == LoginCheck(a2, "nonce", p.checks, n)
  IN  InternalResponse(302, SetRedirectUri(a3.url, rq.origin, OAuthCallbackPage),
                       a3.cookies, 0, 0)

\* the code-exchange request sent to the token endpoint
Exchange(endpoint, verifier, redirect) ==
  [endpoint |-> endpoint, verifier |-> verifier, redirect_uri |-> redirect]

NoExchange == Exchange("", 0, NoRedirectUri)

\* what one callback execution did: its outcome, the steps it invoked in order,
\* the check cookies its local `cookies` array collected, the token request it
\* sent, the raw token response and the profile it received ("" / -1: step not
\* reached), and the profile handed to onAuth / config.profile (0: not invoked)
CallbackRun(response, steps, consumed, sent, grant, fetched, profile) ==
  [response |-> response, steps |-> steps, consumed |-> consumed, sent |-> sent,
   grant |-> grant, fetched |-> fetched, profile |-> profile]

NoRun == CallbackRun(NoResponse, <<>>, <<>>, NoExchange, "", -1, 0)

\* a mutant of OAuthCodeGrantParams: the expected state is not handed over
OAuthCodeGrantParamsUnchecked(state, rq) == validateAuthResponse(SkipStateCheck, rq.q)

\* codeGrantParams = oauth.validateAuthResponse(as, client, searchParams, state)
OAuthCodeGrantParams(state, rq) == validateAuthResponse(state, rq.q)

\* `await this.endpoints.token.conform?.(response.clone()) ?? response`
OAuthConform(hook, raw) ==
  IF hook \in {"none", "undefined"} THEN raw ELSE ApplyHook(hook, raw)

\* a mutant of ProfileMissing: the missing profile is not detected
ProfileMissingIgnored(profile) == FALSE

\* `if (!profile) throw new Error(...)`
ProfileMissing(profile) == profile = 0

\* the application's onAuth hook: a response for the profile, which may
\* already hold cookies
onAuth(profile, appCookies) ==
  InternalResponse(302, [NoUrl EXCEPT !.endpoint = "/"], appCookies, profile, profile)

\* `processedResponse.cookies ??= []; processedResponse.cookies.push(...cookies)`
MergeCookies(processed, cookies) ==
  [processed EXCEPT !.cookies = processed.cookies \o cookies]

\* OAuthProvider.callback
OAuthProvider_callback(p, rq, env) ==
  LET st == CheckUse("state", p.checks, rq.stateCookie)
      c1 == PushIfCookie(<<>>, st.cookie)
      codeGrantParams == OAuthCodeGrantParams(st.value, rq)
      pk == CheckUse("pkce", p.checks, rq.pkceCookie)
      c2 == PushIfCookie(c1, pk.cookie)
      sent == Exchange("https://as.example/token", pk.value,
                       RedirectUri(rq.origin, OAuthCallbackPage))
      response == OAuthConform(p.conform, env.grant)
      tokens == processAuthorizationCodeResponse(response)
      s1 == <<"state.use">>
      s2 == Append(s1, "validateAuthResponse")
      s3 == Append(s2, "pkce.use")
      s4 == Append(s3, "authorizationCodeGrantRequest")
      s5 == IF p.conform = "none" THEN s4 ELSE Append(s4, "conform")
      s6 == Append(s5, "parseWwwAuthenticateChallenges")
      s7 == Append(s6, "processAuthorizationCodeOAuth2Response")
      s8 == Append(s7, IF p.userinfoRequest THEN "userinfo.request" ELSE "userInfoRequest")
      s9 == Append(s8, "onAuth")
  IN  IF st.threw
        THEN CallbackRun(Thrown, s1, c1, NoExchange, "", -1, 0)
      ELSE IF codeGrantParams = "throw" \/ isOAuth2Error(codeGrantParams)
        THEN CallbackRun(Thrown, s2, c1, NoExchange, "", -1, 0)
      ELSE IF pk.threw
        THEN CallbackRun(Thrown, s3, c1, NoExchange, "", -1, 0)
      ELSE IF ~GrantRequestSendable(rq.q)
        THEN CallbackRun(Thrown, s4, c2, NoExchange, "", -1, 0)
      ELSE IF env.grant = "network"
        THEN CallbackRun(Thrown, s4, c2, sent, env.grant, -1, 0)
      ELSE IF parseWwwAuthenticateChallenges(response)
        THEN CallbackRun(Thrown, s6, c2, sent, env.grant, -1, 0)
      ELSE IF tokens = "throw" \/ isOAuth2Error(tokens)
        THEN CallbackRun(Thrown, s7, c2, sent, env.grant, -1, 0)
      ELSE IF ProfileMissing(env.profile)
        THEN CallbackRun(Thrown, s8, c2, sent, env.grant, env.profile, 0)
      ELSE CallbackRun(MergeCookies(onAuth(env.profile, env.appCookies), c2),
                       s9, c2, sent, env.grant, env.profile, env.profile)

\* ------------------------------------------------------------------------
\* OIDCProvider: configuration and lazily initialised shared state
\* ------------------------------------------------------------------------

\* the requests in flight at the same time on one OIDCProvider
Slots == {1, 2}

\* the OIDCConfig: issuer ("" when none), the authorization option (none, a
\* string, an object with url and params), the token option (none, a string,
\* an object with a conform hook, an object without one), the checks, and
\* whether the issuer's metadata lists S256
OIDCConfig(issuer, authorization, token, checksOption, s256) ==
  [issuer |-> issuer, authorization |-> authorization, token |-> token,
   checks |-> checksOption, s256 |-> s256]

OIDCConfigs ==
  { OIDCConfig(e[1], e[2], e[3], c, s) :
      e \in { <<"https://issuer.example", "none", "none">>,
              <<"https://issuer.example", "object", "string">>,
              <<"https://issuer.example", "none", "conform">>,
              <<"https://issuer.example", "none", "object">> },
      c \in SUBSET Checks,
      s \in BOOLEAN }
  \cup
  { OIDCConfig("", e[1], e[2], c, FALSE) :
      e \in { <<"string", "string">>, <<"none", "none">>,
              <<"string", "none">>, <<"none", "string">> },
      c \in SUBSET Checks }

NoOIDCConfig == OIDCConfig("", "none", "none", {}, FALSE)

\* pages.callback
OIDCCallbackPage == "/auth/callback/oidc"

\* oauth.AuthorizationServer: the metadata the provider caches
AuthorizationServer(issuer, authorization, token, userinfo, s256) ==
  [issuer |-> issuer, authorization_endpoint |-> authorization,
   token_endpoint |-> token, userinfo_endpoint |-> userinfo, s256 |-> s256]

\* `this.authorizationServer = Object.create(null)`
NoAuthorizationServer == AuthorizationServer("", NoUrl, "", "", FALSE)

\* `this.authorizationServer = { issuer: 'authjs.dev' }`
IssuerOnly == AuthorizationServer("authjs.dev", NoUrl, "", "", FALSE)

\* the result of discoveryRequest + processDiscoveryResponse for the issuer
Discovered(cfg) ==
  AuthorizationServer(cfg.issuer,
                      [NoUrl EXCEPT !.endpoint = "https://issuer.example/authorize"],
                      "https://issuer.example/token",
                      "https://issuer.example/userinfo",
                      cfg.s256)

\* authorizationUrl of initialize: the configured string, else the configured
\* object's url, else the cached authorization_endpoint, else undefined (NoUrl)
AuthorizationUrl(cfg, as) ==
  IF cfg.authorization \in {"string", "object"}
    THEN [NoUrl EXCEPT !.endpoint = "https://configured.example/authorize"]
    ELSE as.authorization_endpoint

\* the params of initialize set on authorizationUrl (string values only)
WithParams(cfg, url) ==
  [url EXCEPT !.response_type = "code",
              !.client_id = "client",
              !.scope = IF cfg.authorization = "object" THEN "email" ELSE @]

\* a mutant of TokenUrl: a missing token endpoint is derived from the issuer
TokenUrlDerived(cfg, as) ==
  IF cfg.token = "string" THEN "https://configured.example/token"
  ELSE IF as.token_endpoint = "" THEN "https://authjs.dev/token"
  ELSE as.token_endpoint

\* tokenUrl of initialize: the configured string, else the cached
\* token_endpoint, else undefined ("")
TokenUrl(cfg, as) ==
  IF cfg.token = "string" THEN "https://configured.example/token" ELSE as.token_endpoint

\* oauthFlow.token.conform: the object's hook (undefined when the object has
\* none), else the identity
TokenConform(cfg) ==
  CASE cfg.token = "conform" -> "fix"
    [] cfg.token = "object" -> "undefined-function"
    [] OTHER -> "identity"

\* userinfoUrl of initialize
UserinfoPlaceholder == "placeholder-url: OIDC gets user info from tokens directly."

\* the authorization server after initialize has written the three endpoints
Finalised(cfg, as) ==
  [as EXCEPT !.authorization_endpoint = WithParams(cfg, AuthorizationUrl(cfg, as)),
             !.token_endpoint = TokenUrl(cfg, as),
             !.userinfo_endpoint = UserinfoPlaceholder]

\* the endpoint set one initialize alone produces
InitializedOnce(cfg) ==
  Finalised(cfg, IF cfg.issuer = "" THEN IssuerOnly ELSE Discovered(cfg))

\* a mutant of NeedsInitialize: every request initializes again
NeedsInitializeAlways(isInitialized) == TRUE

\* `if (!this.initialized) await this.initialize()`
NeedsInitialize(isInitialized) == ~isInitialized

\* config.profile (defaultProfile): the session normalised from the claims
defaultProfile(profile) == 100 + profile

\* the result of a check's `use` that a callback is awaiting
NoUse == [threw |-> FALSE, value |-> 0, cookie |-> NoCookie]

\* one request in flight on the OIDCProvider: where it stands (pc), what it
\* is (op), its request (fields are filled in when they are first read), the
\* locals of signIn / callback, the token endpoint it read from the cached
\* metadata ("-": none read), and what the execution did (as CallbackRun)
Idle ==
  [pc |-> "idle", op |-> "", rq |-> NoRequest, n |-> 0,
   sawInit |-> FALSE, discoveries |-> 0, checks0 |-> {}, fellBack |-> FALSE,
   url |-> 0, cookies |-> <<>>, use |-> NoUse, stateChecked |-> FALSE,
   tokenEndpoint |-> "-", nonce |-> 0, hook |-> "", conformed |-> "",
   response |-> NoResponse, steps |-> <<>>, sent |-> NoExchange,
   grant |-> "", fetched |-> -1, profile |-> 0]

\* ------------------------------------------------------------------------
\* Token codec (jwt encode / decode)
\* A token is what encode produced (kind "jwt": payload, secret, issue and
\* expiry time), a jwt with one byte changed ("mutated"), a string that is no
\* JWE ("garbage"), the empty string ("empty") or no value at all ("absent").
\* ------------------------------------------------------------------------

\* const DEFAULT_MAX_AGE = 30 * 24 * 60 * 60
DEFAULT_MAX_AGE == 2592000

\* jwtDecrypt(..., { clockTolerance: 15 })
ClockTolerance == 15

\* an optional value that is not given
Undefined == -1

JwtToken(kind, payload, secret, iat, exp) ==
  [kind |-> kind, payload |-> payload, secret |-> secret, iat |-> iat, exp |-> exp]

\* `undefined`: the request has no such cookie
AbsentToken == JwtToken("absent", 0, "", 0, 0)

\* the empty string, the value of a clearing cookie
EmptyToken == JwtToken("empty", 0, "", 0, 0)

\* a string that is not a JWE
GarbageToken == JwtToken("garbage", 0, "", 0, 0)

\* the payload jwtDecrypt returns: the encoded claims with iat and exp
Payload(token, iat, exp) == [token |-> token, iat |-> iat, exp |-> exp]

\* `null`
NullPayload == Payload(Undefined, 0, 0)

\* encode(params): an encrypted JWT of the payload (`token = {}` when not
\* given), issued now and expiring after maxAge (DEFAULT_MAX_AGE when not given)
encode(token, secret, maxAge, clock) ==
  JwtToken("jwt", IF token = Undefined THEN 0 ELSE token, secret, clock,
           clock + (IF maxAge = Undefined THEN DEFAULT_MAX_AGE ELSE maxAge))

\* jwtDecrypt rejects a token that is no JWE, fails authentication (a changed
\* byte, another key) or is expired beyond the clock tolerance
jwtDecryptRejects(token, secret, clock) ==
  \/ token.kind # "jwt"
  \/ token.secret # secret
  \/ token.exp <= clock - ClockTolerance

\* decode(params): null for `token == null`, else the payload jwtDecrypt
\* returns; an error thrown by jwtDecrypt propagates
decode(token, secret, clock) ==
  IF token.kind = "absent" THEN [threw |-> FALSE, value |-> NullPayload]
  ELSE IF jwtDecryptRejects(token, secret, clock)
    THEN [threw |-> TRUE, value |-> NullPayload]
  ELSE [threw |-> FALSE, value |-> Payload(token.payload, token.iat, token.exp)]

\* ------------------------------------------------------------------------
\* TokenSessionManager
\* A session is { accessToken, refreshToken? }: a token value is an object
\* (a positive number here), a falsy but defined value (0) or Undefined.
\* ------------------------------------------------------------------------

\* const DefaultAccessTokenMaxAge = 60 * 60
DefaultAccessTokenMaxAge == 3600

\* const DefaultRefreshTokenMaxAge = 60 * 60 * 24 * 7
DefaultRefreshTokenMaxAge == 604800

\* this.cookies.accessToken.name / this.cookies.refreshToken.name
AccessTokenCookie == "accessToken"

RefreshTokenCookie == "refreshToken"

NewSession(accessToken, refreshToken) ==
  [accessToken |-> accessToken, refreshToken |-> refreshToken]

\* a session callback answered null / undefined
Nullish == NewSession(Undefined - 1, Undefined - 1)

\* JavaScript truthiness of a session's token value
Truthy(v) == v > 0

\* JavaScript truthiness of a cookie value (a string or undefined)
TruthyCookie(token) == token.kind \notin {"absent", "empty"}

\* TokenSessionConfig.maxAge: Partial<TokenMaxAge>
MaxAge(accessToken, refreshToken) ==
  [accessToken |-> accessToken, refreshToken |-> refreshToken]

\* `maxAge` is not given
NoMaxAge == MaxAge(Undefined, Undefined)

\* not given, only an access token max-age, only a refresh token max-age
MaxAgeOptions == {NoMaxAge, MaxAge(60, Undefined), MaxAge(Undefined, 120)}

\* a mutant of OrDefault: the default wins over a configured value
OrDefaultOnly(value, default) == default

\* `value ?? default`
OrDefault(value, default) == IF value = Undefined THEN default ELSE value

\* the TokenSessionManager a config constructs: `config.maxAge?.accessToken ??
\* DefaultAccessTokenMaxAge`, ..., `this.onInvalidateSession =
\* config.onInvalidateSession` (optional); config: what it was constructed from
TokenSessionManager(secret, maxAgeOption, hasInvalidate) ==
  [config |-> [maxAge |-> maxAgeOption],
   secret |-> secret,
   maxAge |-> MaxAge(OrDefault(maxAgeOption.accessToken, DefaultAccessTokenMaxAge),
                     OrDefault(maxAgeOption.refreshToken, DefaultRefreshTokenMaxAge)),
   onInvalidateSession |-> hasInvalidate]

TokenSessionManagers ==
  {TokenSessionManager("s3cret", a, h) : a \in MaxAgeOptions, h \in BOOLEAN}

\* `if (newSession?.accessToken)` / `if (newSession?.refreshToken)`
IssuesCookie(newSession, value) ==
  newSession # Nullish /\ Truthy(value)

\* TokenSessionManager.createCookies
createCookies(m, newSession, clock) ==
  LET access ==
        IF IssuesCookie(newSession, newSession.accessToken)
          THEN <<Cookie(AccessTokenCookie,
                        encode(newSession.accessToken, m.secret, m.maxAge.accessToken, clock),
                        m.maxAge.accessToken)>>
          ELSE <<>>
      refresh ==
        IF IssuesCookie(newSession, newSession.refreshToken)
          THEN <<Cookie(RefreshTokenCookie,
                        encode(newSession.refreshToken, m.secret, m.maxAge.refreshToken, clock),
                        m.maxAge.refreshToken)>>
          ELSE <<>>
  IN  access \o refresh

\* `{}`: a response without user and cookies
EmptyResponse == InternalResponse(0, NoUrl, <<>>, 0, 0)

\* what onInvalidateSession does when invoked: it throws, returns null /
\* undefined, or returns a response
HookAnswer(kind, response) == [kind |-> kind, response |-> response]

\* a request as the manager reads it: its access and refresh cookie
SessionRequest(accessToken, refreshToken) ==
  [accessToken |-> accessToken, refreshToken |-> refreshToken]

\* what one call of a manager method did: the method, its request (fromJar:
\* the cookies are the client's cookie jar) or its argument, whether it threw,
\* the response or user it returned, the arguments of each callback it
\* invoked, in order, the number of decode calls, and what the session
\* callback (session) and onInvalidateSession (hook) answer when invoked
ManagerCall(op, rq, input, threw, response, user, created, refreshed, invalidated, decodes) ==
  [op |-> op, fromJar |-> FALSE, rq |-> rq, input |-> input, threw |-> threw,
   response |-> response, user |-> user, created |-> created,
   refreshed |-> refreshed, invalidated |-> invalidated, decodes |-> decodes,
   session |-> Nullish, hook |-> HookAnswer("", EmptyResponse)]

NoCall ==
  ManagerCall("", SessionRequest(AbsentToken, AbsentToken), EmptyResponse, FALSE,
              EmptyResponse, NullPayload, <<>>, <<>>, <<>>, 0)

\* a mutant of ShouldRefresh: the test of the access cookie is inverted
ShouldRefreshWithAccess(rq, refresh) ==
  TruthyCookie(rq.accessToken) /\ TruthyCookie(rq.refreshToken) /\ refresh # NullPayload

\* `if (!accessToken && refreshToken && refresh)`
ShouldRefresh(rq, refresh) ==
  ~TruthyCookie(rq.accessToken) /\ TruthyCookie(rq.refreshToken) /\ refresh # NullPayload

\* TokenSessionManager.handleRequest; answer: what refreshSession returns
handleRequest(m, rq, answer, clock) ==
  LET refresh == decode(rq.refreshToken, m.secret, clock)
      call == [NoCall EXCEPT !.op = "handleRequest", !.rq = rq, !.decodes = 1]
  IN  IF refresh.threw THEN [call EXCEPT !.threw = TRUE]
      ELSE IF ShouldRefresh(rq, refresh.value)
        THEN [call EXCEPT !.refreshed = <<refresh.value>>,
                          !.response.cookies = createCookies(m, answer, clock)]
      ELSE call

\* a mutant of AppendCookies: the issued cookies replace the list
ReplaceCookies(cookies, issued) == issued

\* `response.cookies ??= []; response.cookies.push(...issued)`
AppendCookies(cookies, issued) == cookies \o issued

\* TokenSessionManager.handleResponse; answer: what createSession returns
handleResponse(m, response, answer, clock) ==
  LET call == [NoCall EXCEPT !.op = "handleResponse", !.input = response,
                             !.response = response]
  IN  IF response.user = 0 THEN call
      ELSE [call EXCEPT !.created = <<response.user>>,
                        !.response.cookies =
                          AppendCookies(response.cookies, createCookies(m, answer, clock))]

\* a mutant of HasAccessToken: decode is called whatever the cookie is
HasAccessTokenUnchecked(rq) == TRUE

\* `if (!accessToken) return null` of getUser
HasAccessToken(rq) == TruthyCookie(rq.accessToken)

\* TokenSessionManager.getUser
getUser(m, rq, clock) ==
  LET user == decode(rq.accessToken, m.secret, clock)
      call == [NoCall EXCEPT !.op = "getUser", !.rq = rq]
  IN  IF ~HasAccessToken(rq) THEN call
      ELSE [call EXCEPT !.decodes = 1, !.threw = user.threw, !.user = user.value]

\* a mutant of ClearingCookies: the refresh cookie is left alone
ClearingCookiesAccessOnly == <<Cookie(AccessTokenCookie, EmptyToken, 0)>>

\* the two cookies logout pushes last: empty value, maxAge 0
ClearingCookies == <<Cookie(AccessTokenCookie, EmptyToken, 0),
                     Cookie(RefreshTokenCookie, EmptyToken, 0)>>

\* `response.cookies ??= []; response.cookies.push(access, refresh)` of logout
LogoutCookies(cookies) == cookies \o ClearingCookies

\* `this.onInvalidateSession?.(session, refresh)`
InvalidateArguments(session, refresh) == [session |-> session, refresh |-> refresh]

\* TokenSessionManager.logout; answer: what onInvalidateSession does
logout(m, rq, answer, clock) ==
  LET session == decode(rq.accessToken, m.secret, clock)
      refresh == decode(rq.refreshToken, m.secret, clock)
      call == [NoCall EXCEPT !.op = "logout", !.rq = rq]
      invoked == [call EXCEPT !.decodes = 2,
                              !.invalidated =
                                <<InvalidateArguments(session.value, refresh.value)>>]
  IN  IF session.threw THEN [call EXCEPT !.decodes = 1, !.threw = TRUE]
      ELSE IF refresh.threw THEN [call EXCEPT !.decodes = 2, !.threw = TRUE]
      ELSE IF session.value = NullPayload \/ ~m.onInvalidateSession
        THEN [call EXCEPT !.decodes = 2, !.response.cookies = LogoutCookies(<<>>)]
      ELSE IF answer.kind = "throws" THEN [invoked EXCEPT !.threw = TRUE]
      ELSE IF answer.kind = "nullish"
        THEN [invoked EXCEPT !.response.cookies = LogoutCookies(<<>>)]
      ELSE [invoked EXCEPT !.response =
                             [answer.response EXCEPT !.cookies = LogoutCookies(@)]]

\* ------------------------------------------------------------------------
\* The client: a cookie jar holding the manager's two cookies
\* ------------------------------------------------------------------------

\* now() when the model starts
InitialClock == 1000

JarCookie(value, expires) == [value |-> value, expires |-> expires]

NoJarCookie == JarCookie(AbsentToken, 0)

EmptyJar == [accessToken |-> NoJarCookie, refreshToken |-> NoJarCookie]

\* the client applies one cookie instruction: maxAge 0 deletes the cookie,
\* else the cookie is stored until its max-age has elapsed
ApplyCookie(jar, cookie, clock) ==
  LET stored == IF cookie.maxAge <= 0 THEN NoJarCookie
                ELSE JarCookie(cookie.value, clock + cookie.maxAge)
  IN  CASE cookie.name = AccessTokenCookie -> [jar EXCEPT !.accessToken = stored]
        [] cookie.name = RefreshTokenCookie -> [jar EXCEPT !.refreshToken = stored]
        [] OTHER -> jar

RECURSIVE ApplyCookies(_, _, _)
ApplyCookies(jar, cookies, clock) ==
  IF cookies = <<>> THEN jar
  ELSE ApplyCookies(ApplyCookie(jar, Head(cookies), clock), Tail(cookies), clock)

\* the client drops the cookies whose max-age has elapsed
Expire(jar, clock) ==
  [name \in DOMAIN jar |->
     IF jar[name].value # AbsentToken /\ jar[name].expires <= clock
       THEN NoJarCookie ELSE jar[name]]

\* the request the client sends: the cookies of its jar
JarRequest(jar) == SessionRequest(jar.accessToken.value, jar.refreshToken.value)

\* where the client's session stands: no session yet, a session issued by
\* handleResponse (payload: its access payload), renewed by handleRequest,
\* expired, or ended by an applied logout response
Lifecycle(phase, payload) == [phase |-> phase, payload |-> payload]

NoLifecycle == Lifecycle("none", 0)

NoManager == TokenSessionManager("", NoMaxAge, FALSE)

\* what encode was called with and returned: the payload, the max-age, the
\* time of the call and the token
Minted(payload, maxAge, at, token) ==
  [payload |-> payload, maxAge |-> maxAge, at |-> at, token |-> token]

NoMint == Minted(Undefined, Undefined, 0, AbsentToken)

\* a function application: the function, its arguments and its result
Application(fn, args, result) == [fn |-> fn, args |-> args, result |-> result]

NoApplication == Application("", <<>>, <<>>)

\* the config of a provider that keeps nothing else: clientId, clientSecret,
\* scope ("": not given, else the scopes joined) and, for Google, redirect_uri
ProviderConfig(clientId, clientSecret, scope, redirect_uri) ==
  [clientId |-> clientId, clientSecret |-> clientSecret, scope |-> scope,
   redirect_uri |-> redirect_uri]

NoConfig == ProviderConfig("", "", "", NoRedirectUri)

ProviderConfigs ==
  { ProviderConfig("client", "s3cr3t", scope,
                   RedirectUri("http://localhost:5173", "/auth/callback/google")) :
      scope \in {"", "repo"} }

\* ------------------------------------------------------------------------
\* CredentialsProvider, GitHub, Google (lib/auth.js/providers)
\* ------------------------------------------------------------------------

\* a mutant of CredentialsProvider_signIn: it redirects to a login page
CredentialsProvider_signInRedirect(rq) ==
  InternalResponse(302, [NoUrl EXCEPT !.endpoint = "/auth/login"], <<>>, 0, 0)

\* `async signIn(request) { return {} }`
CredentialsProvider_signIn(rq) == EmptyResponse

\* `async callback(request) { return {} }`
CredentialsProvider_callback(rq) == EmptyResponse

\* `async signOut(request) { return {} }`
CredentialsProvider_signOut(rq) == EmptyResponse

\* GITHUB_ENDPOINTS.authorization, GOOGLE_ENDPOINTS.authorization
GITHUB_ENDPOINTS == [authorization |-> "https://github.com/login/oauth/authorize"]

GOOGLE_ENDPOINTS == [authorization |-> "https://accounts.google.com/o/oauth2/v2/auth"]

\* GitHub.getAuthorizationUrl, the n-th call: [authorizationUrl, state]
GitHub_getAuthorizationUrl(cfg, n) ==
  LET state == FreshValue(n, "state")
  IN  << [NoUrl EXCEPT !.endpoint = GITHUB_ENDPOINTS.authorization,
                       !.client_id = cfg.clientId,
                       !.client_secret = cfg.clientSecret,
                       !.scope = cfg.scope,
                       !.state = state],
         state >>

\* Google.login, the n-th call: [authorizationUrl, state]
Google_login(cfg, n) ==
  LET state == FreshValue(n, "state")
  IN  << [NoUrl EXCEPT !.endpoint = GOOGLE_ENDPOINTS.authorization,
                       !.client_id = cfg.clientId,
                       !.scope = IF cfg.scope = "" THEN "profile email" ELSE cfg.scope,
                       !.state = state,
                       !.response_type = "code",
                       !.redirect_uri = cfg.redirect_uri],
         state >>

\* ------------------------------------------------------------------------
\* State
\* ------------------------------------------------------------------------

VARIABLES
  provider,            \* the kind of provider under test: "oauth" or "oidc"
  oauth,               \* the OAuthProvider's configuration
  op,                  \* the operation the OAuthProvider handled last
  request,             \* the request it handled
  run,                 \* what that execution did (CallbackRun)
  started,             \* number of requests started so far
  oidc,                \* the OIDCProvider's configuration as constructed
  initialized,         \* OIDCProvider.initialized
  authorizationServer, \* OIDCProvider.authorizationServer
  oauthFlow,           \* OIDCProvider.oauthFlow (authorization: a URL object)
  urls,                \* the URL objects initialize has created
  checks,              \* OIDCProvider.config.checks
  req,                 \* the requests in flight on the OIDCProvider
  manager,             \* the TokenSessionManager
  jar,                 \* the client's cookie jar
  clock,               \* now(), in seconds
  call,                \* the manager call under way (ManagerCall)
  lifecycle,           \* where the client's session stands
  minted,              \* the token encode issued last, with its parameters
  config,              \* the config of a CredentialsProvider, GitHub or Google
  applied              \* the function applied last: arguments and result

vars ==
  <<provider, oauth, op, request, run, started, oidc, initialized,
    authorizationServer, oauthFlow, urls, checks, req,
    manager, jar, clock, call, lifecycle, minted, config, applied>>

sessionVars == <<manager, jar, clock, call, lifecycle>>

\* the variables of the token codec and of the stateless providers
plainVars == <<minted, config, applied>>

oauthVars == <<oauth, op, request, run>>

oidcVars == <<oidc, initialized, authorizationServer, oauthFlow, urls, checks, req>>

NoOAuthConfig ==
  [checks |-> {}, params |-> CHOOSE p \in StaticParams : p.scope = "",
   conform |-> "none", userinfoRequest |-> FALSE]

\* `this.oauthFlow = Object.create(null)`
NoOAuthFlow ==
  [authorization |-> 0, token |-> [url |-> "", conform |-> ""], userinfo |-> ""]

\* the state after construction of the provider under test
Init ==
  /\ provider \in {"oauth", "oidc", "credentials", "github", "google"}
  /\ oauth \in (IF provider = "oauth" THEN OAuthConfigs ELSE {NoOAuthConfig})
  /\ op = ""
  /\ request = NoRequest
  /\ run = NoRun
  /\ started = 0
  /\ oidc \in (IF provider = "oidc" THEN OIDCConfigs ELSE {NoOIDCConfig})
  /\ initialized = FALSE
  /\ authorizationServer = NoAuthorizationServer
  /\ oauthFlow = NoOAuthFlow
  /\ urls = <<>>
  /\ checks = oidc.checks
  /\ req = [r \in Slots |-> Idle]
  /\ manager = NoManager
  /\ jar = EmptyJar
  /\ clock = InitialClock
  /\ call = NoCall
  /\ lifecycle = NoLifecycle
  /\ minted = NoMint
  /\ config \in (IF provider \in {"credentials", "github", "google"}
                  THEN ProviderConfigs ELSE {NoConfig})
  /\ applied = NoApplication

\* ------------------------------------------------------------------------
\* OAuthProvider: one action per handler
\* ------------------------------------------------------------------------

OAuthCallbackRequests ==
  { InternalRequest(o, s, p, 0, q) :
      o \in Origins, s \in RequestTokens("state"), p \in RequestTokens("pkce"),
      q \in QueryParams }

\* a login request arrives and is handled
OAuthLogin ==
  /\ provider = "oauth"
  /\ op = ""
  /\ started < MaxRequests
  /\ \E rq \in LoginRequests :
       /\ request' = rq
       /\ run' = [NoRun EXCEPT !.response = OAuthProvider_login(oauth, rq, started + 1)]
  /\ op' = "login"
  /\ started' = started + 1
  /\ UNCHANGED <<provider, sessionVars, plainVars, oauth, oidcVars>>

\* a callback request arrives and is handled
OAuthCallback ==
  /\ provider = "oauth"
  /\ op = ""
  /\ started < MaxRequests
  /\ started' = started + 1
  /\ \E rq \in OAuthCallbackRequests, env \in Environments :
       /\ request' = rq
       /\ run' = OAuthProvider_callback(oauth, rq, env)
  /\ op' = "callback"
  /\ UNCHANGED <<provider, sessionVars, plainVars, oauth, oidcVars>>

\* the response (or the error) has been handed to the caller
OAuthRespond ==
  /\ provider = "oauth"
  /\ op # ""
  /\ op' = ""
  /\ request' = NoRequest
  /\ run' = NoRun
  /\ UNCHANGED <<provider, sessionVars, plainVars, oauth, started, oidcVars>>

\* ------------------------------------------------------------------------
\* OIDCProvider.signIn: from one await to the next
\* A context is the request's record together with the shared fields the
\* synchronous stretch of code may write: config.checks and the URL objects.
\* ------------------------------------------------------------------------

Failed(rec) == [rec EXCEPT !.pc = "done", !.response = Thrown]

\* redirect_uri and scope defaults, then `return { status: 302, redirect:
\* url.toString(), cookies }`
SignInReturn(ctx) ==
  LET u1 == SetRedirectUri(ctx.urls[ctx.rec.url], ctx.rec.rq.origin, OIDCCallbackPage)
      u2 == IF u1.scope = "" THEN [u1 EXCEPT !.scope = "openid profile email"] ELSE u1
  IN  [ctx EXCEPT !.urls[ctx.rec.url] = u2,
                  !.rec.pc = "done",
                  !.rec.response = InternalResponse(302, u2, ctx.rec.cookies, 0, 0)]

\* `if (this.config.checks?.includes('nonce'))`: await checks.nonce.create
SignInNonce(ctx) ==
  IF "nonce" \in ctx.checks
    THEN [ctx EXCEPT !.rec.pc = "nonce.create"]
    ELSE SignInReturn(ctx)

\* `if (this.config.checks?.includes('pkce'))`: without S256 in the metadata
\* `this.config.checks = ['nonce']`, else await checks.pkce.create
SignInPkce(ctx, as) ==
  IF "pkce" \in ctx.checks
    THEN IF ~as.s256
           THEN SignInNonce([ctx EXCEPT !.checks = {"nonce"}, !.rec.fellBack = TRUE])
           ELSE [ctx EXCEPT !.rec.pc = "pkce.create"]
    ELSE SignInNonce(ctx)

\* `if (this.config.checks?.includes('state'))`: await checks.state.create
SignInState(ctx, as) ==
  IF "state" \in ctx.checks
    THEN [ctx EXCEPT !.rec.pc = "state.create"]
    ELSE SignInPkce(ctx, as)

\* `const cookies = []; const { url } = this.oauthFlow.authorization`
SignInBody(ctx, as, flow) ==
  SignInState([ctx EXCEPT !.rec.cookies = <<>>, !.rec.url = flow.authorization], as)

\* the value and cookie a create returned are put on the shared URL object
\* and on the request's cookie list
SignInCreated(ctx, k) ==
  LET created == CheckCreate(k, ctx.rec.n)
  IN  [ctx EXCEPT !.urls[ctx.rec.url] = SetCheckParam(@, k, created.value),
                  !.rec.cookies = Append(@, created.cookie)]

\* ------------------------------------------------------------------------
\* OIDCProvider.callback: from one await to the next
\* ------------------------------------------------------------------------

\* `const cookies = []; await checks.state.use(request, this)`
CallbackBody(rec, currentChecks, token) ==
  [rec EXCEPT !.cookies = <<>>,
              !.rq.stateCookie = CookieRead("state", currentChecks, token),
              !.stateChecked = "state" \in currentChecks,
              !.use = CheckUse("state", currentChecks, token),
              !.steps = <<"state.use">>,
              !.pc = "state.use"]

\* codeGrantParams = oauth.validateAuthResponse(as, client, searchParams, state)
OIDCCodeGrantParams(state, q) == validateAuthResponse(state, q)

\* after state.use: push its cookie, validate the callback parameters, then
\* `await checks.pkce.use(request, this)`
CallbackValidate(rec, currentChecks, q, token) ==
  LET r1 == [rec EXCEPT !.cookies = PushIfCookie(@, rec.use.cookie),
                        !.rq.q = q,
                        !.steps = Append(@, "validateAuthResponse")]
      codeGrantParams == OIDCCodeGrantParams(rec.use.value, q)
  IN  IF rec.use.threw THEN Failed(rec)
      ELSE IF codeGrantParams = "throw" \/ isOAuth2Error(codeGrantParams) THEN Failed(r1)
      ELSE [r1 EXCEPT !.rq.pkceCookie = CookieRead("pkce", currentChecks, token),
                      !.use = CheckUse("pkce", currentChecks, token),
                      !.steps = Append(@, "pkce.use"),
                      !.pc = "pkce.use"]

\* after pkce.use: push its cookie, then oauth.authorizationCodeGrantRequest
\* with the cached metadata as it is now
CallbackExchange(rec, as, origin) ==
  LET r1 == [rec EXCEPT !.cookies = PushIfCookie(@, rec.use.cookie),
                        !.rq.origin = origin,
                        !.steps = Append(@, "authorizationCodeGrantRequest")]
  IN  IF rec.use.threw THEN Failed(rec)
      ELSE IF ~GrantRequestSendable(rec.rq.q) THEN Failed(r1)
      ELSE IF as.token_endpoint = ""
        THEN Failed([r1 EXCEPT !.tokenEndpoint = as.token_endpoint])
      ELSE [r1 EXCEPT !.tokenEndpoint = as.token_endpoint,
                      !.sent = Exchange(as.token_endpoint, rec.use.value,
                                        RedirectUri(origin, OIDCCallbackPage)),
                      !.pc = "grant"]

\* the token endpoint answered: `await this.oauthFlow.token.conform(
\* initialCodeGrantResponse.clone())`
CallbackConform(rec, flow, grant) ==
  LET r1 == [rec EXCEPT !.grant = grant]
  IN  IF grant = "network" THEN Failed(r1)
      ELSE IF flow.token.conform = "undefined-function" THEN Failed(r1)
      ELSE [r1 EXCEPT !.hook = flow.token.conform,
                      !.steps = Append(@, "conform"),
                      !.pc = "conform"]

\* after conform: www-authenticate challenges abort, else
\* `await checks.nonce.use(request, this)`
CallbackChallenges(rec, currentChecks, token) ==
  LET response == ApplyHook(rec.hook, rec.grant)
      r1 == [rec EXCEPT !.conformed = response,
                        !.steps = Append(@, "parseWwwAuthenticateChallenges")]
  IN  IF parseWwwAuthenticateChallenges(response) THEN Failed(r1)
      ELSE [r1 EXCEPT !.rq.nonceCookie = CookieRead("nonce", currentChecks, token),
                      !.use = CheckUse("nonce", currentChecks, token),
                      !.steps = Append(@, "nonce.use"),
                      !.pc = "nonce.use"]

\* a mutant of ExpectedNonce: no nonce is expected in the ID token
ExpectedNonceNone(use) == 0

\* `const [nonce, nonceCookie] = await checks.nonce.use(request, this)`: the
\* nonce handed to processAuthorizationCodeOpenIDResponse
ExpectedNonce(use) == use.value

\* after nonce.use: push its cookie, then
\* `await oauth.processAuthorizationCodeOpenIDResponse(as, client, response, nonce)`
CallbackProcess(rec) ==
  IF rec.use.threw THEN Failed(rec)
  ELSE [rec EXCEPT !.cookies = PushIfCookie(@, rec.use.cookie),
                   !.nonce = ExpectedNonce(rec.use),
                   !.steps = Append(@, "processAuthorizationCodeOpenIDResponse"),
                   !.pc = "process"]

\* the token response was processed (the ID token carries claimNonce): an
\* error or a nonce that is not the expected one aborts, else the validated
\* claims are the profile and `await this.config.profile(profile, result)`
CallbackClaims(rec, claimNonce, claims) ==
  LET result == processAuthorizationCodeResponse(rec.conformed)
  IN  IF result = "throw" \/ isOAuth2Error(result) \/ claimNonce # rec.nonce
        THEN Failed(rec)
      ELSE [rec EXCEPT !.fetched = claims,
                       !.profile = claims,
                       !.steps = Append(@, "profile"),
                       !.pc = "profile"]

\* `return { session, redirect: '/', status: 302 }`
CallbackReturn(rec) ==
  [rec EXCEPT !.response = InternalResponse(302, [NoUrl EXCEPT !.endpoint = "/"], <<>>,
                                            0, defaultProfile(rec.profile)),
              !.pc = "done"]

\* ------------------------------------------------------------------------
\* OIDCProvider: actions, one per stretch of code between two awaits
\* ------------------------------------------------------------------------

Context(rec) == [rec |-> rec, checks |-> checks, urls |-> urls]

\* initialize up to its first await: initializeAuthorizationServer either
\* assigns the issuer-only object and returns, or awaits the discovery request
BeginInitialize(rec, cfg) ==
  IF cfg.issuer = ""
    THEN [rec EXCEPT !.pc = "initialize"]
    ELSE [rec EXCEPT !.pc = "discovery", !.discoveries = @ + 1]

\* a signIn request starts
OIDCSignIn(r) ==
  /\ provider = "oidc"
  /\ req[r].pc = "idle"
  /\ started < MaxRequests
  /\ started' = started + 1
  /\ \E origin \in Origins :
       LET rec == [Idle EXCEPT !.op = "signIn", !.n = started + 1, !.rq.origin = origin,
                               !.sawInit = initialized, !.checks0 = checks]
           ctx == SignInBody(Context(rec), authorizationServer, oauthFlow)
       IN  IF NeedsInitialize(initialized)
             THEN /\ req' = [req EXCEPT ![r] = BeginInitialize(rec, oidc)]
                  /\ authorizationServer' =
                       IF oidc.issuer = "" THEN IssuerOnly ELSE authorizationServer
                  /\ UNCHANGED <<checks, urls>>
             ELSE /\ req' = [req EXCEPT ![r] = ctx.rec]
                  /\ checks' = ctx.checks
                  /\ urls' = ctx.urls
                  /\ UNCHANGED authorizationServer
  /\ UNCHANGED <<provider, sessionVars, plainVars, oauthVars, oidc, initialized, oauthFlow>>

\* a callback request starts
OIDCCallback(r) ==
  /\ provider = "oidc"
  /\ req[r].pc = "idle"
  /\ started < MaxRequests
  /\ started' = started + 1
  /\ \E token \in RequestTokens("state") :
       LET rec == [Idle EXCEPT !.op = "callback", !.sawInit = initialized,
                               !.checks0 = checks]
       IN  IF NeedsInitialize(initialized)
             THEN /\ req' = [req EXCEPT ![r] = BeginInitialize(rec, oidc)]
                  /\ authorizationServer' =
                       IF oidc.issuer = "" THEN IssuerOnly ELSE authorizationServer
             ELSE /\ req' = [req EXCEPT ![r] = CallbackBody(rec, checks, token)]
                  /\ UNCHANGED authorizationServer
  /\ UNCHANGED <<provider, sessionVars, plainVars, oauthVars, oidc, initialized, oauthFlow, urls, checks>>

\* the discovery request and processDiscoveryResponse completed (or failed):
\* `this.authorizationServer = await oauth.processDiscoveryResponse(...)`
OIDCDiscovered(r) ==
  /\ req[r].pc = "discovery"
  /\ \E ok \in BOOLEAN :
       IF ok
         THEN /\ authorizationServer' = Discovered(oidc)
              /\ req' = [req EXCEPT ![r].pc = "initialize"]
         ELSE /\ req' = [req EXCEPT ![r] = Failed(req[r])]
              /\ UNCHANGED authorizationServer
  /\ UNCHANGED <<provider, sessionVars, plainVars, oauthVars, started, oidc, initialized, oauthFlow, urls, checks>>

\* initialize after `await this.initializeAuthorizationServer()`: the
\* endpoints are resolved and written, or a TypeError is thrown
OIDCInitialize(r) ==
  /\ req[r].pc = "initialize"
  /\ LET authorizationUrl == AuthorizationUrl(oidc, authorizationServer)
         tokenUrl == TokenUrl(oidc, authorizationServer)
     IN  IF authorizationUrl = NoUrl \/ tokenUrl = ""
           THEN /\ req' = [req EXCEPT ![r] = Failed(req[r])]
                /\ UNCHANGED <<initialized, authorizationServer, oauthFlow, urls>>
           ELSE /\ urls' = Append(urls, WithParams(oidc, authorizationUrl))
                /\ oauthFlow' = [authorization |-> Len(urls) + 1,
                                 token |-> [url |-> tokenUrl, conform |-> TokenConform(oidc)],
                                 userinfo |-> UserinfoPlaceholder]
                /\ authorizationServer' = Finalised(oidc, authorizationServer)
                /\ initialized' = TRUE
                /\ req' = [req EXCEPT ![r].pc = "initialized"]
  /\ UNCHANGED <<provider, sessionVars, plainVars, oauthVars, started, oidc, checks>>

\* signIn / callback after `await this.initialize()`
OIDCInitialized(r) ==
  /\ req[r].pc = "initialized"
  /\ \E token \in RequestTokens("state") :
       LET ctx == SignInBody(Context(req[r]), authorizationServer, oauthFlow)
       IN  IF req[r].op = "signIn"
             THEN /\ req' = [req EXCEPT ![r] = ctx.rec]
                  /\ checks' = ctx.checks
                  /\ urls' = ctx.urls
             ELSE /\ req' = [req EXCEPT ![r] = CallbackBody(req[r], checks, token)]
                  /\ UNCHANGED <<checks, urls>>
  /\ UNCHANGED <<provider, sessionVars, plainVars, oauthVars, started, oidc, initialized, authorizationServer,
                 oauthFlow>>

\* signIn after `await checks.<k>.create(this)`, up to the next await
SignInResume(r, ctx) ==
  /\ req' = [req EXCEPT ![r] = ctx.rec]
  /\ checks' = ctx.checks
  /\ urls' = ctx.urls
  /\ UNCHANGED <<provider, sessionVars, plainVars, oauthVars, started, oidc, initialized, authorizationServer,
                 oauthFlow>>

OIDCStateCreated(r) ==
  /\ req[r].pc = "state.create"
  /\ SignInResume(r, SignInPkce(SignInCreated(Context(req[r]), "state"),
                                authorizationServer))

OIDCPkceCreated(r) ==
  /\ req[r].pc = "pkce.create"
  /\ SignInResume(r, SignInNonce(SignInCreated(Context(req[r]), "pkce")))

OIDCNonceCreated(r) ==
  /\ req[r].pc = "nonce.create"
  /\ SignInResume(r, SignInReturn(SignInCreated(Context(req[r]), "nonce")))

\* callback after an await, up to the next one
CallbackResume(r, rec) ==
  /\ req' = [req EXCEPT ![r] = rec]
  /\ UNCHANGED <<provider, sessionVars, plainVars, oauthVars, started, oidc, initialized, authorizationServer,
                 oauthFlow, urls, checks>>

OIDCStateUsed(r) ==
  /\ req[r].pc = "state.use"
  /\ \E q \in QueryParams, token \in RequestTokens("pkce") :
       CallbackResume(r, CallbackValidate(req[r], checks, q, token))

OIDCPkceUsed(r) ==
  /\ req[r].pc = "pkce.use"
  /\ \E origin \in Origins :
       CallbackResume(r, CallbackExchange(req[r], authorizationServer, origin))

OIDCGranted(r) ==
  /\ req[r].pc = "grant"
  /\ \E grant \in TokenResponses \cup {"network"} :
       CallbackResume(r, CallbackConform(req[r], oauthFlow, grant))

OIDCConformed(r) ==
  /\ req[r].pc = "conform"
  /\ \E token \in RequestTokens("nonce") :
       CallbackResume(r, CallbackChallenges(req[r], checks, token))

OIDCNonceUsed(r) ==
  /\ req[r].pc = "nonce.use"
  /\ CallbackResume(r, CallbackProcess(req[r]))

OIDCProcessed(r) ==
  /\ req[r].pc = "process"
  /\ \E claimNonce \in {0, FreshValue(1, "nonce")} :
       CallbackResume(r, CallbackClaims(req[r], claimNonce, 7))

OIDCProfiled(r) ==
  /\ req[r].pc = "profile"
  /\ CallbackResume(r, CallbackReturn(req[r]))

\* the response (or the error) has been handed to the caller
OIDCRespond(r) ==
  /\ req[r].pc = "done"
  /\ req' = [req EXCEPT ![r] = Idle]
  /\ UNCHANGED <<provider, sessionVars, plainVars, oauthVars, started, oidc, initialized, authorizationServer,
                 oauthFlow, urls, checks>>

\* the steps of the request in slot r that is under way
OIDCStep(r) ==
  \/ OIDCDiscovered(r)
  \/ OIDCInitialize(r)
  \/ OIDCInitialized(r)
  \/ OIDCStateCreated(r)
  \/ OIDCPkceCreated(r)
  \/ OIDCNonceCreated(r)
  \/ OIDCStateUsed(r)
  \/ OIDCPkceUsed(r)
  \/ OIDCGranted(r)
  \/ OIDCConformed(r)
  \/ OIDCNonceUsed(r)
  \/ OIDCProcessed(r)
  \/ OIDCProfiled(r)
  \/ OIDCRespond(r)

\* ------------------------------------------------------------------------
\* CredentialsProvider, GitHub, Google: one action per method
\* ------------------------------------------------------------------------

\* the requests a CredentialsProvider may be handed
CredentialsRequests == LoginRequests \cup OAuthCallbackRequests

\* a method of the provider under test is applied and nothing else is written
Apply(kind, fn, args, result) ==
  /\ provider = kind
  /\ applied = NoApplication
  /\ started < MaxRequests
  /\ started' = started + 1
  /\ applied' = Application(fn, args, result)
  /\ UNCHANGED <<provider, sessionVars, minted, config, oauthVars, oidcVars>>

CredentialsSignIn ==
  \E rq \in CredentialsRequests :
    Apply("credentials", "signIn", <<rq>>, CredentialsProvider_signIn(rq))

CredentialsCallback ==
  \E rq \in CredentialsRequests :
    Apply("credentials", "callback", <<rq>>, CredentialsProvider_callback(rq))

CredentialsSignOut ==
  \E rq \in CredentialsRequests :
    Apply("credentials", "signOut", <<rq>>, CredentialsProvider_signOut(rq))

GitHubGetAuthorizationUrl ==
  Apply("github", "getAuthorizationUrl", <<>>,
        GitHub_getAuthorizationUrl(config, started + 1))

GoogleLogin ==
  Apply("google", "login", <<>>, Google_login(config, started + 1))

\* the result has been handed to the caller
Returned ==
  /\ provider \in {"credentials", "github", "google"}
  /\ applied # NoApplication
  /\ applied' = NoApplication
  /\ UNCHANGED <<provider, sessionVars, minted, config, oauthVars, started, oidcVars>>

\* requests are handled one at a time
Next ==
  \/ OAuthLogin
  \/ OAuthCallback
  \/ OAuthRespond
  \/ CredentialsSignIn
  \/ CredentialsCallback
  \/ CredentialsSignOut
  \/ GitHubGetAuthorizationUrl
  \/ GoogleLogin
  \/ Returned
  \/ OIDCSignIn(1)
  \/ OIDCCallback(1)
  \/ OIDCStep(1)

Spec == Init /\ [][Next]_vars

\* the OIDC configurations whose requests are run concurrently
ConcurrentConfigs ==
  { OIDCConfig("https://issuer.example", "none", "none", {"state", "pkce", "nonce"}, TRUE),
    OIDCConfig("https://issuer.example", "object", "string", {"state", "pkce"}, TRUE),
    OIDCConfig("https://issuer.example", "none", "none", {"state", "pkce"}, FALSE),
    OIDCConfig("", "string", "string", {"pkce"}, FALSE),
    OIDCConfig("", "none", "none", {"state"}, FALSE) }

InitConcurrent ==
  /\ Init
  /\ provider = "oidc"
  /\ oidc \in ConcurrentConfigs

\* two requests in flight on one OIDCProvider, every await a yield point:
\* any request in slot 1 runs concurrently with a signIn in slot 2
NextConcurrent ==
  \/ OIDCCallback(1)
  \/ \E r \in Slots :
       \/ OIDCSignIn(r)
       \/ OIDCStep(r)

SpecConcurrent == InitConcurrent /\ [][NextConcurrent]_vars

\* ------------------------------------------------------------------------
\* TokenSessionManager: one action per method call, and the client
\* ------------------------------------------------------------------------

\* number of manager calls and clock advances of a behaviour
MaxEvents == 5

\* cookie values of a request that does not come from the client's jar: none,
\* empty, malformed, a jwt with a changed byte, one encrypted under another
\* secret, an expired one, and a valid one
ForgedTokens(m) ==
  { AbsentToken, EmptyToken, GarbageToken,
    JwtToken("mutated", 9, m.secret, InitialClock, InitialClock + DefaultRefreshTokenMaxAge),
    encode(9, "another secret", DefaultRefreshTokenMaxAge, InitialClock),
    encode(9, m.secret, 0, 0),
    encode(9, m.secret, 2 * DefaultRefreshTokenMaxAge, InitialClock) }

\* the requests a call may get: the client's, or any pair of forged cookies
SessionRequests(m, cookieJar) ==
  { [rq |-> JarRequest(cookieJar), fromJar |-> TRUE] }
  \cup { [rq |-> SessionRequest(a, r), fromJar |-> FALSE] :
           a \in ForgedTokens(m), r \in ForgedTokens(m) }

\* what createSession / refreshSession answer on the n-th event: nothing, a
\* session with an access token, a session with access and refresh token
CallbackSessions(n) ==
  { Nullish, NewSession(10 * n + 1, Undefined), NewSession(10 * n + 1, 10 * n + 2) }

\* the arguments createCookies may be called with
AnySessions ==
  {Nullish} \cup {NewSession(a, r) : a \in {0, 5}, r \in {Undefined, 0, 6}}

\* a cookie of the application, not one of the manager's
AppCookie(name) == Cookie(name, GarbageToken, 60)

\* the responses handed to handleResponse
ProviderResponses ==
  { InternalResponse(302, NoUrl, c, u, 0) :
      c \in {<<>>, <<AppCookie("app"), AppCookie("flash")>>}, u \in {0, 7} }

\* what onInvalidateSession may do
HookAnswers ==
  { HookAnswer("throws", EmptyResponse), HookAnswer("nullish", EmptyResponse),
    HookAnswer("response", EmptyResponse),
    HookAnswer("response", InternalResponse(302, NoUrl, <<AppCookie("app")>>, 0, 0)) }

InitSession ==
  /\ provider = "session"
  /\ oauth = NoOAuthConfig
  /\ op = ""
  /\ request = NoRequest
  /\ run = NoRun
  /\ started = 0
  /\ oidc = NoOIDCConfig
  /\ initialized = FALSE
  /\ authorizationServer = NoAuthorizationServer
  /\ oauthFlow = NoOAuthFlow
  /\ urls = <<>>
  /\ checks = {}
  /\ req = [r \in Slots |-> Idle]
  /\ manager \in TokenSessionManagers
  /\ jar = EmptyJar
  /\ clock = InitialClock
  /\ call = NoCall
  /\ lifecycle = NoLifecycle
  /\ minted = NoMint
  /\ config = NoConfig
  /\ applied = NoApplication

\* a manager method is called and runs to its end
Called(result) ==
  /\ call' = result
  /\ started' = started + 1
  /\ UNCHANGED <<provider, oauthVars, oidcVars, plainVars, manager, jar, clock, lifecycle>>

CanCall == call.op = "" /\ started < MaxEvents

CreateCookies ==
  /\ CanCall
  /\ \E newSession \in AnySessions :
       Called([NoCall EXCEPT !.op = "createCookies", !.session = newSession,
                             !.response.cookies = createCookies(manager, newSession, clock)])

HandleResponse ==
  /\ CanCall
  /\ \E response \in ProviderResponses, answer \in CallbackSessions(started + 1) :
       Called([handleResponse(manager, response, answer, clock) EXCEPT
                 !.session = answer])

HandleRequest ==
  /\ CanCall
  /\ \E r \in SessionRequests(manager, jar), answer \in CallbackSessions(started + 1) :
       Called([handleRequest(manager, r.rq, answer, clock) EXCEPT
                 !.fromJar = r.fromJar, !.session = answer])

GetUser ==
  /\ CanCall
  /\ \E r \in SessionRequests(manager, jar) :
       Called([getUser(manager, r.rq, clock) EXCEPT !.fromJar = r.fromJar])

Logout ==
  /\ CanCall
  /\ \E r \in SessionRequests(manager, jar), answer \in HookAnswers :
       Called([logout(manager, r.rq, answer, clock) EXCEPT
                 !.fromJar = r.fromJar, !.hook = answer])

\* the cookies a call's response adds to those it was given
Issued(c) == SubSeq(c.response.cookies, Len(c.input.cookies) + 1, Len(c.response.cookies))

\* where the client's session stands once it has applied the response
Applied(c, life) ==
  CASE c.op = "handleResponse" /\ Issued(c) # <<>>
         /\ Issued(c)[1].name = AccessTokenCookie ->
           Lifecycle("issued", Issued(c)[1].value.payload)
    [] c.op = "handleRequest" /\ c.response.cookies # <<>> -> Lifecycle("renewed", 0)
    [] c.op = "logout" -> Lifecycle("loggedOut", life.payload)
    [] OTHER -> life

\* the call returns; the client applies the cookie instructions of a response
\* to its own request (and of a provider response passed through
\* handleResponse) to its jar
SessionRespond ==
  /\ call.op # ""
  /\ call' = NoCall
  /\ IF ~call.threw /\ (call.fromJar \/ call.op = "handleResponse")
       THEN /\ jar' = ApplyCookies(jar, call.response.cookies, clock)
            /\ lifecycle' = Applied(call, lifecycle)
       ELSE UNCHANGED <<jar, lifecycle>>
  /\ UNCHANGED <<provider, oauthVars, oidcVars, plainVars, started, manager, clock>>

\* time passes: an hour or a week; the client drops the cookies that expired
Tick ==
  /\ CanCall
  /\ started' = started + 1
  /\ \E seconds \in {DefaultAccessTokenMaxAge, DefaultRefreshTokenMaxAge} :
       /\ clock' = clock + seconds
       /\ jar' = Expire(jar, clock + seconds)
       /\ lifecycle' = IF /\ lifecycle.phase \in {"issued", "renewed"}
                          /\ Expire(jar, clock + seconds).accessToken = NoJarCookie
                         THEN Lifecycle("expired", 0) ELSE lifecycle
  /\ UNCHANGED <<provider, oauthVars, oidcVars, plainVars, manager, call>>

NextSession ==
  \/ CreateCookies
  \/ HandleResponse
  \/ HandleRequest
  \/ GetUser
  \/ Logout
  \/ SessionRespond
  \/ Tick

SpecSession == InitSession /\ [][NextSession]_vars

\* ------------------------------------------------------------------------
\* Token codec: encode once, decode as time passes
\* ------------------------------------------------------------------------

\* seconds the clock advances after a token was issued
MaxElapsed == 80

\* payloads handed to encode: none, {} and two claim sets
CodecPayloads == {Undefined, 0, 5, 7}

\* max-ages handed to encode: none, 0, and two lifetimes
CodecMaxAges == {Undefined, 0, 10, 60}

InitCodec ==
  /\ InitSession
  /\ manager = TokenSessionManager("s3cret", NoMaxAge, FALSE)

\* encode({ token, secret, maxAge })
Encode ==
  /\ call.op = ""
  /\ minted = NoMint
  /\ \E payload \in CodecPayloads, maxAge \in CodecMaxAges :
       minted' = Minted(payload, maxAge, clock,
                        encode(payload, manager.secret, maxAge, clock))
  /\ UNCHANGED <<provider, oauthVars, oidcVars, started, sessionVars, config, applied>>

\* decode({ token, secret }) of the issued token, or of none
Decode ==
  /\ call.op = ""
  /\ LET result == decode(minted.token, manager.secret, clock)
     IN  call' = [NoCall EXCEPT !.op = "decode", !.rq.accessToken = minted.token,
                                !.decodes = 1, !.threw = result.threw,
                                !.user = result.value]
  /\ UNCHANGED <<provider, oauthVars, oidcVars, started, plainVars, manager, jar, clock,
                 lifecycle>>

\* decode has returned or thrown
CodecRespond ==
  /\ call.op = "decode"
  /\ call' = NoCall
  /\ UNCHANGED <<provider, oauthVars, oidcVars, started, plainVars, manager, jar, clock,
                 lifecycle>>

\* a second passes
CodecTick ==
  /\ call.op = ""
  /\ minted # NoMint
  /\ clock < minted.at + MaxElapsed
  /\ clock' = clock + 1
  /\ UNCHANGED <<provider, oauthVars, oidcVars, started, plainVars, manager, jar, call,
                 lifecycle>>

NextCodec ==
  \/ Encode
  \/ Decode
  \/ CodecRespond
  \/ CodecTick

SpecCodec == InitCodec /\ [][NextCodec]_vars

\* ------------------------------------------------------------------------
\* mergeOAuthOptions(userOptions, defaultOptions)
\* Optional strings are "" when not given; an optional list is <<>> when not
\* given and <<list>> when given.
\* ------------------------------------------------------------------------

\* search parameters of an endpoint descriptor ("": the key is not there)
EndpointParams(scope, client_id, response_type) ==
  [scope |-> scope, client_id |-> client_id, response_type |-> response_type]

NoParams == EndpointParams("", "", "")

\* an endpoint option: not given ("none"), a url string, or an object with
\* an optional url and optional params
Endpoint(kind, url, hasParams, params) ==
  [kind |-> kind, url |-> url, hasParams |-> hasParams, params |-> params]

NoEndpoint == Endpoint("none", "", FALSE, NoParams)

\* the forms a user may give an endpoint in
UserEndpoints(name) ==
  { NoEndpoint,
    Endpoint("string", "https://user.example/" \o name, FALSE, NoParams),
    Endpoint("object", "", FALSE, NoParams),
    Endpoint("object", "https://user.example/" \o name, FALSE, NoParams) }

\* the authorization endpoint may also carry params of the user
UserAuthorizationEndpoints ==
  UserEndpoints("authorize")
    \cup { Endpoint("object", url, TRUE, EndpointParams("repo", "", "")) :
             url \in {"", "https://user.example/authorize"} }

\* OAuthUserConfig: what the model reads of it
UserOptions ==
  [id : {"", "mine"},
   clientId : {"client"},
   checks : {<<>>, <<{"nonce"}>>},
   pages : [login : {"", "/signin"}, callback : {"", "/cb"}],
   endpoints : [authorization : UserAuthorizationEndpoints,
                token : {NoEndpoint, Endpoint("object", "https://user.example/token",
                                              FALSE, NoParams)},
                userinfo : {NoEndpoint, Endpoint("string", "https://user.example/userinfo",
                                                 FALSE, NoParams)}]]

\* OAuthDefaultConfig of a provider package
DefaultOptions ==
  [id : {"github"},
   checks : {<<>>, <<{"state"}>>},
   endpoints : [authorization :
                  { Endpoint("object", "https://default.example/authorize", FALSE, NoParams),
                    Endpoint("object", "https://default.example/authorize", TRUE,
                             EndpointParams("email", "default-client", "token")) },
                token : {Endpoint("object", "https://default.example/token", FALSE, NoParams)},
                userinfo : {Endpoint("object", "https://default.example/userinfo",
                                     FALSE, NoParams)}]]

\* `a ?? b` on optional strings
OrElse(a, b) == IF a # "" THEN a ELSE b

\* `typeof user === 'string' ? user : (user?.url ?? default.url)`
EndpointUrl(user, default) ==
  IF user.kind = "string" THEN user.url ELSE OrElse(user.url, default.url)

\* `{ ...a, ...b }` on params
Spread(a, b) == [k \in DOMAIN a |-> OrElse(b[k], a[k])]

\* pages: `userOptions.pages?.login ?? `/auth/login/${id}``, and callback
MergedPages(userOptions, defaultOptions, id) ==
  [login |-> OrElse(userOptions.pages.login, "/auth/login/" \o id),
   callback |-> OrElse(userOptions.pages.callback, "/auth/callback/" \o id)]

mergeOAuthOptions(userOptions, defaultOptions) ==
  LET id == OrElse(userOptions.id, defaultOptions.id)
      authorizationUrl == EndpointUrl(userOptions.endpoints.authorization,
                                      defaultOptions.endpoints.authorization)
      tokenUrl == EndpointUrl(userOptions.endpoints.token, defaultOptions.endpoints.token)
      userinfoUrl == EndpointUrl(userOptions.endpoints.userinfo,
                                 defaultOptions.endpoints.userinfo)
  IN  [id |-> id,
       checks |-> IF userOptions.checks # <<>> THEN userOptions.checks[1]
                  ELSE IF defaultOptions.checks # <<>> THEN defaultOptions.checks[1]
                  ELSE {"pkce"},
       pages |-> MergedPages(userOptions, defaultOptions, id),
       endpoints |->
         [authorization |->
            [url |-> authorizationUrl,
             params |-> [Spread(NoParams, defaultOptions.endpoints.authorization.params)
                           EXCEPT !.client_id = userOptions.clientId,
                                  !.response_type = "code"]],
          token |-> [url |-> tokenUrl],
          userinfo |-> [url |-> userinfoUrl]]]

\* a provider package is about to merge a user's options with its defaults
InitMerge ==
  /\ provider = "merge"
  /\ oauth = NoOAuthConfig
  /\ op = ""
  /\ request = NoRequest
  /\ run = NoRun
  /\ started = 0
  /\ oidc = NoOIDCConfig
  /\ initialized = FALSE
  /\ authorizationServer = NoAuthorizationServer
  /\ oauthFlow = NoOAuthFlow
  /\ urls = <<>>
  /\ checks = {}
  /\ req = [r \in Slots |-> Idle]
  /\ manager = NoManager
  /\ jar = EmptyJar
  /\ clock = InitialClock
  /\ call = NoCall
  /\ lifecycle = NoLifecycle
  /\ minted = NoMint
  /\ config = NoConfig
  /\ \E userOptions \in UserOptions, defaultOptions \in DefaultOptions :
       applied = Application("", <<userOptions, defaultOptions>>, <<>>)

\* the options are merged
Merge ==
  /\ provider = "merge"
  /\ applied.fn = ""
  /\ applied' = Application("mergeOAuthOptions", applied.args,
                            <<mergeOAuthOptions(applied.args[1], applied.args[2])>>)
  /\ UNCHANGED <<provider, oauthVars, oidcVars, started, sessionVars, minted, config>>

NextMerge == Merge

SpecMerge == InitMerge /\ [][NextMerge]_vars

\* ------------------------------------------------------------------------
\* Properties of the callback and login handlers (one request at a time)
\* ------------------------------------------------------------------------

Contains(seq, x) == \E i \in DOMAIN seq : seq[i] = x

CookieNames(cookies) == {cookies[i].name : i \in DOMAIN cookies}

\* the state check rejects: it is in force and the cookie is absent or does
\* not decode, or the decoded state is not the callback's state parameter
StateRejected(inForce, cookie, q) ==
  inForce /\ (DecodeCheck(cookie) = 0 \/ DecodeCheck(cookie) # q.state)

\* an outcome without session, user or cookie: the callback threw
NoSession(response) ==
  /\ response.threw
  /\ response.session = 0
  /\ response.user = 0
  /\ response.cookies = <<>>

C2_FailureProducesNoSession ==
  /\ ( /\ provider = "oauth"
       /\ op = "callback"
       /\ \/ run.response.threw
          \/ StateRejected("state" \in oauth.checks, request.stateCookie, request.q)
          \/ request.q.error
          \/ run.grant = "network"
          \/ /\ run.grant \notin {"", "network"}
             /\ \/ parseWwwAuthenticateChallenges(OAuthConform(oauth.conform, run.grant))
                \/ processAuthorizationCodeResponse(OAuthConform(oauth.conform, run.grant)) # "ok"
          \/ run.fetched = 0 ) =>
         /\ NoSession(run.response)
         /\ run.profile = 0
         /\ ~Contains(run.steps, "onAuth")
  /\ \A r \in Slots :
       ( /\ req[r].op = "callback"
         /\ \/ req[r].response.threw
            \/ StateRejected(req[r].stateChecked /\ Len(req[r].steps) >= 2,
                             req[r].rq.stateCookie, req[r].rq.q)
            \/ req[r].rq.q.error
            \/ req[r].grant = "network"
            \/ parseWwwAuthenticateChallenges(req[r].conformed)
            \/ req[r].conformed \notin {"", "ok"} ) =>
         /\ req[r].pc = "done" => NoSession(req[r].response)
         /\ req[r].pc # "profile"
         /\ req[r].profile = 0
         /\ ~Contains(req[r].steps, "profile")

\* the token endpoint answered the code exchange with an OAuth2 error
C2_Witness ==
  /\ provider = "oauth"
  /\ op = "callback"
  /\ run.sent # NoExchange
  /\ run.grant = "error"
  /\ run.response = Thrown

\* C3: a successful callback of either provider returns a response whose
\* cookie list ends with every clearing cookie the state, pkce and nonce
\* checks returned during that callback.
C3_ClearingCookiesReturned ==
  /\ (provider = "oauth" /\ op = "callback" /\ ~run.response.threw) =>
       /\ Len(run.response.cookies) >= Len(run.consumed)
       /\ SubSeq(run.response.cookies,
                 Len(run.response.cookies) - Len(run.consumed) + 1,
                 Len(run.response.cookies)) = run.consumed
  /\ \A r \in Slots :
       (req[r].op = "callback" /\ req[r].pc = "done" /\ ~req[r].response.threw) =>
         /\ Len(req[r].response.cookies) >= Len(req[r].cookies)
         /\ SubSeq(req[r].response.cookies,
                   Len(req[r].response.cookies) - Len(req[r].cookies) + 1,
                   Len(req[r].response.cookies)) = req[r].cookies

\* C4: a callback that fails after check cookies were consumed by `use` has an
\* outcome that carries exactly the clearing cookies of the checks consumed.
C4_FailureClearsConsumed ==
  /\ (provider = "oauth" /\ op = "callback" /\ run.response.threw) =>
       run.response.cookies = run.consumed
  /\ \A r \in Slots :
       (req[r].op = "callback" /\ req[r].pc = "done" /\ req[r].response.threw) =>
         req[r].response.cookies = req[r].cookies

\* the URL parameter of a check cookie is the value created with that cookie
Bound(cookie, url) ==
  CASE cookie.name = "state" -> cookie.value = EncodeCheck(url.state)
    [] cookie.name = "pkce"  -> url.code_challenge = S256(DecodeCheck(cookie.value))
    [] cookie.name = "nonce" -> cookie.value = EncodeCheck(url.nonce)
    [] OTHER -> FALSE

\* C5: OAuthProvider.login answers 302 with exactly one cookie per enabled
\* check and none for a disabled one, and the redirect URL carries state /
\* code_challenge (with code_challenge_method=S256) / nonce exactly for the
\* enabled checks, each the value created together with that check's cookie.
C5_LoginChecks ==
  (provider = "oauth" /\ op = "login") =>
    LET response == run.response
        url == response.redirect
    IN  /\ ~response.threw
        /\ response.status = 302
        /\ Len(response.cookies) = Cardinality(oauth.checks)
        /\ CookieNames(response.cookies) = oauth.checks
        /\ url.state # 0 <=> "state" \in oauth.checks
        /\ url.code_challenge # 0 <=> "pkce" \in oauth.checks
        /\ url.code_challenge_method = "S256" <=> "pkce" \in oauth.checks
        /\ url.nonce # 0 <=> "nonce" \in oauth.checks
        /\ \A i \in DOMAIN response.cookies : Bound(response.cookies[i], url)

\* a login with all three checks enabled
C5_Witness ==
  /\ provider = "oauth"
  /\ op = "login"
  /\ oauth.checks = Checks
  /\ Len(run.response.cookies) = 3
  /\ run.response.redirect.code_challenge_method = "S256"

\* ------------------------------------------------------------------------
\* Properties of the OIDCProvider's shared state
\* ------------------------------------------------------------------------

\* a signIn in slot r has returned its response
SignedIn(r) ==
  /\ req[r].op = "signIn"
  /\ req[r].pc = "done"
  /\ ~req[r].response.threw

\* C6: under any interleaving of concurrent signIn requests on one
\* OIDCProvider every response is self-consistent: the state, code_challenge
\* and nonce parameters of its redirect URL are the values bound to the
\* cookies of that same response.
C6_SignInSelfConsistent ==
  \A r \in Slots :
    SignedIn(r) =>
      \A i \in DOMAIN req[r].response.cookies :
        Bound(req[r].response.cookies[i], req[r].response.redirect)

\* C7: a request that observed initialized = true reads the finalised token
\* endpoint (the configured override, else the discovered one) from the cached
\* authorizationServer, whatever another request's initialize is doing.
C7_ReadsFinalisedEndpoints ==
  \A r \in Slots :
    (req[r].sawInit /\ req[r].tokenEndpoint # "-") =>
      req[r].tokenEndpoint = InitializedOnce(oidc).token_endpoint

\* C8: a signIn or callback that starts once initialized = true performs no
\* discovery request; requests racing before that may each perform one, and
\* when none of them is initializing any more the cached endpoints are those
\* a single initialize produces.
C8_DiscoveryMemoized ==
  /\ \A r \in Slots : req[r].sawInit => req[r].discoveries = 0
  /\ (initialized /\ \A r \in Slots : req[r].pc \notin {"discovery", "initialize"}) =>
       /\ authorizationServer = InitializedOnce(oidc)
       /\ oauthFlow.token.url = InitializedOnce(oidc).token_endpoint

\* two racing first requests each performed discovery and both completed
C8_Witness ==
  /\ initialized
  /\ \A r \in Slots :
       /\ req[r].discoveries = 1
       /\ req[r].pc = "done"
       /\ ~req[r].response.threw

\* C9: after any sequence of signIn and callback requests the provider's
\* configuration is as constructed and initialized: the enabled checks and the
\* parameters of the authorization URL are unchanged.
C9_ConfigurationImmutable ==
  /\ checks = oidc.checks
  /\ \A i \in DOMAIN urls : urls[i] = InitializedOnce(oidc).authorization_endpoint

\* C10: a signIn with pkce enabled and metadata that does not list S256
\* answers without code_challenge and pkce cookie and with a nonce parameter
\* and nonce cookie; from then on the enabled checks are exactly {nonce}, and
\* the fallback response and every later response emit the nonce cookie alone.
C10_FallbackToNonceAlone ==
  \A r \in Slots :
    (SignedIn(r) /\ (req[r].fellBack \/ checks # oidc.checks)) =>
      /\ checks = {"nonce"}
      /\ req[r].response.redirect.code_challenge = 0
      /\ req[r].response.redirect.nonce = FreshValue(req[r].n, "nonce")
      /\ CookieNames(req[r].response.cookies) = {"nonce"}

\* ------------------------------------------------------------------------
\* Properties of the TokenSessionManager and the token codec
\* ------------------------------------------------------------------------

HasCookie(cookies, name) == \E i \in DOMAIN cookies : cookies[i].name = name

\* the cookies that carry a session's tokens: an access cookie, then a
\* refresh cookie when the session has a refresh token, each a token that
\* decodes to the session's value and lives for the configured max-age
CarriesSession(cookies, newSession) ==
  /\ Len(cookies) = IF newSession.refreshToken = Undefined THEN 1 ELSE 2
  /\ cookies[1].name = AccessTokenCookie
  /\ cookies[1].maxAge = manager.maxAge.accessToken
  /\ decode(cookies[1].value, manager.secret, clock).value.token = newSession.accessToken
  /\ newSession.refreshToken # Undefined =>
       /\ cookies[2].name = RefreshTokenCookie
       /\ cookies[2].maxAge = manager.maxAge.refreshToken
       /\ decode(cookies[2].value, manager.secret, clock).value.token
            = newSession.refreshToken

\* C11: createCookies returns an access cookie exactly when the session's
\* accessToken is defined and a refresh cookie exactly when its refreshToken
\* is defined, falsy values included; a null session yields no cookie, and no
\* other cookie is produced.
C11_CookieIffDefined ==
  call.op = "createCookies" =>
    /\ HasCookie(call.response.cookies, AccessTokenCookie)
         <=> (call.session # Nullish /\ call.session.accessToken # Undefined)
    /\ HasCookie(call.response.cookies, RefreshTokenCookie)
         <=> (call.session # Nullish /\ call.session.refreshToken # Undefined)
    /\ CookieNames(call.response.cookies) \subseteq {AccessTokenCookie, RefreshTokenCookie}
    /\ call.session = Nullish => call.response.cookies = <<>>

\* a cookie that jwtDecrypt accepts under the manager's secret
Decodable(token) == ~jwtDecryptRejects(token, manager.secret, clock)

\* C12: handleRequest with no access cookie, a refresh cookie that decodes and
\* a refresh callback returning a session invokes refreshSession once with the
\* decoded payload, answers with the access and refresh cookies of the
\* returned session, and never invokes createSession.
C12_RefreshIssuesCookies ==
  ( /\ call.op = "handleRequest"
    /\ call.rq.accessToken = AbsentToken
    /\ Decodable(call.rq.refreshToken)
    /\ call.session # Nullish ) =>
    /\ ~call.threw
    /\ call.refreshed = <<Payload(call.rq.refreshToken.payload, call.rq.refreshToken.iat,
                                  call.rq.refreshToken.exp)>>
    /\ CarriesSession(call.response.cookies, call.session)
    /\ call.created = <<>>

\* the client's access cookie has expired, its refresh cookie renews the session
C12_Witness ==
  /\ call.op = "handleRequest"
  /\ call.fromJar
  /\ call.rq.accessToken = AbsentToken
  /\ call.refreshed # <<>>
  /\ Len(call.response.cookies) = 2

\* C13: handleRequest passes the request through when the access cookie is
\* present, or the refresh cookie is absent, or the refresh cookie is invalid:
\* no error, no cookies, neither refreshSession nor createSession invoked.
C13_PassThrough ==
  ( /\ call.op = "handleRequest"
    /\ \/ TruthyCookie(call.rq.accessToken)
       \/ call.rq.refreshToken = AbsentToken
       \/ ~Decodable(call.rq.refreshToken) ) =>
    /\ ~call.threw
    /\ call.response = EmptyResponse
    /\ call.refreshed = <<>>
    /\ call.created = <<>>

\* the last two cookies of the list clear the access and the refresh cookie:
\* empty value, max-age 0
EndsWithClearingCookies(cookies) ==
  /\ Len(cookies) >= 2
  /\ cookies[Len(cookies) - 1] = Cookie(AccessTokenCookie, EmptyToken, 0)
  /\ cookies[Len(cookies)] = Cookie(RefreshTokenCookie, EmptyToken, 0)

\* C14: the response logout returns ends with a clearing cookie for the
\* access cookie and one for the refresh cookie (empty value, max-age 0),
\* whatever cookies the request carried and whether or not a session existed.
C14_LogoutClearsBoth ==
  call.op = "logout" => EndsWithClearingCookies(call.response.cookies)

\* C15: logout is best-effort: when decoding a cookie fails or
\* onInvalidateSession fails, logout still returns the two clearing cookies.
C15_LogoutBestEffort ==
  ( /\ call.op = "logout"
    /\ \/ call.rq.accessToken # AbsentToken /\ ~Decodable(call.rq.accessToken)
       \/ call.rq.refreshToken # AbsentToken /\ ~Decodable(call.rq.refreshToken)
       \/ call.hook.kind = "throws" ) =>
    /\ ~call.threw
    /\ Len(call.response.cookies) >= 2
    /\ CookieNames(SubSeq(call.response.cookies, Len(call.response.cookies) - 1,
                          Len(call.response.cookies)))
         = {AccessTokenCookie, RefreshTokenCookie}

\* the payload of a cookie that decodes, null for any other cookie
DecodedPayload(token) ==
  IF Decodable(token) THEN Payload(token.payload, token.iat, token.exp)
  ELSE NullPayload

\* C16: logout invokes onInvalidateSession exactly when the access cookie
\* decodes to a session, with the decoded session and the decoded refresh
\* payload (or null); the hook's response is the base of logout's response,
\* its cookies kept before the clearing cookies; without a session the hook
\* is not invoked and the base is empty.
C16_InvalidateHook ==
  ( /\ call.op = "logout"
    /\ manager.onInvalidateSession
    /\ call.hook.kind # "throws" ) =>
    IF Decodable(call.rq.accessToken)
      THEN /\ call.invalidated = <<[session |-> DecodedPayload(call.rq.accessToken),
                                    refresh |-> DecodedPayload(call.rq.refreshToken)]>>
           /\ ~call.threw
           /\ LET base == IF call.hook.kind = "response" THEN call.hook.response
                                                         ELSE EmptyResponse
                  n == Len(base.cookies)
              IN  /\ Len(call.response.cookies) = n + 2
                  /\ SubSeq(call.response.cookies, 1, n) = base.cookies
                  /\ EndsWithClearingCookies(call.response.cookies)
                  /\ [call.response EXCEPT !.cookies = base.cookies] = base
      ELSE /\ call.invalidated = <<>>
           /\ ~call.threw
           /\ Len(call.response.cookies) = 2
           /\ [call.response EXCEPT !.cookies = <<>>] = EmptyResponse

\* C17: handleResponse with a user invokes createSession once with that user
\* and appends the cookies issued for the resulting session after the
\* response's own cookies, all kept in order; without a user the response is
\* returned unchanged and createSession is not invoked.
C17_HandleResponseAppends ==
  call.op = "handleResponse" =>
    /\ ~call.threw
    /\ IF call.input.user # 0
         THEN /\ call.created = <<call.input.user>>
              /\ Len(call.response.cookies) >= Len(call.input.cookies)
              /\ SubSeq(call.response.cookies, 1, Len(call.input.cookies))
                   = call.input.cookies
              /\ IF call.session = Nullish THEN Issued(call) = <<>>
                 ELSE CarriesSession(Issued(call), call.session)
              /\ [call.response EXCEPT !.cookies = call.input.cookies] = call.input
         ELSE /\ call.created = <<>>
              /\ call.response = call.input

\* a response that already carries two cookies receives a session's two
C17_Witness ==
  /\ call.op = "handleResponse"
  /\ Len(call.input.cookies) = 2
  /\ call.created # <<>>
  /\ Len(call.response.cookies) = 4

\* C18: getUser is read-only and depends on the access cookie alone: no
\* callback is invoked and no cookie emitted; without an access cookie it
\* returns null and decode is not called; with one it returns what decode
\* yields; the refresh cookie does not change the result.
C18_GetUserReadOnly ==
  call.op = "getUser" =>
    /\ call.created = <<>> /\ call.refreshed = <<>> /\ call.invalidated = <<>>
    /\ call.response = EmptyResponse
    /\ IF call.rq.accessToken \in {AbsentToken, EmptyToken}
         THEN call.decodes = 0 /\ ~call.threw /\ call.user = NullPayload
         ELSE /\ call.decodes = 1
              /\ call.threw = decode(call.rq.accessToken, manager.secret, clock).threw
              /\ call.user = decode(call.rq.accessToken, manager.secret, clock).value

\* without an access cookie and with a refresh cookie that would not decode,
\* getUser answers null
C18_Witness ==
  /\ call.op = "getUser"
  /\ call.rq.accessToken = AbsentToken
  /\ call.rq.refreshToken = GarbageToken
  /\ ~call.threw
  /\ call.user = NullPayload

\* C19: for a client that applies every cookie instruction: once
\* handleResponse has issued a session getUser returns its access payload;
\* once a logout response is applied getUser returns null and handleRequest
\* issues no cookie and does not invoke refreshSession, until handleResponse
\* issues a new session.
C19_SessionLifecycle ==
  call.fromJar =>
    /\ (lifecycle.phase = "issued" /\ call.op = "getUser") =>
         ~call.threw /\ call.user.token = lifecycle.payload
    /\ (lifecycle.phase = "loggedOut" /\ call.op = "getUser") =>
         ~call.threw /\ call.user = NullPayload
    /\ (lifecycle.phase = "loggedOut" /\ call.op = "handleRequest") =>
         ~call.threw /\ call.response.cookies = <<>> /\ call.refreshed = <<>>

\* a session was issued, the client applied a logout, and sends a request
C19_Witness ==
  /\ lifecycle.phase = "loggedOut"
  /\ lifecycle.payload # 0
  /\ call.fromJar
  /\ call.op = "handleRequest"

\* C20: decode never fails on bad input: a malformed, mutated, foreign or
\* expired token decodes to null, so getUser on a request bearing such an
\* access cookie returns null instead of propagating an error.
C20_DecodeNeverThrows ==
  ( /\ call.op = "getUser"
    /\ call.rq.accessToken \notin {AbsentToken, EmptyToken}
    /\ ~Decodable(call.rq.accessToken) ) =>
    /\ ~decode(call.rq.accessToken, manager.secret, clock).threw
    /\ ~call.threw
    /\ call.user = NullPayload

\* ------------------------------------------------------------------------
\* Properties of the token codec over time
\* ------------------------------------------------------------------------

\* C21: round trip: decode(encode(P, secret, A), secret) equals P at every
\* time within A seconds of encoding and returns null at every time after A
\* seconds have elapsed.
C21_RoundTrip ==
  ( /\ call.op = "decode"
    /\ minted # NoMint
    /\ call.rq.accessToken = minted.token
    /\ minted.payload # Undefined
    /\ minted.maxAge # Undefined ) =>
    /\ ~call.threw
    /\ IF clock - minted.at <= minted.maxAge
         THEN call.user.token = minted.payload
         ELSE call.user = NullPayload

\* ------------------------------------------------------------------------
\* Further properties of the providers
\* ------------------------------------------------------------------------

\* C22: an OIDCProvider without issuer and without a manually configured
\* authorization endpoint or token endpoint: initialize fails, initialized
\* stays unset, no redirect or session response is produced, and every later
\* request fails the same way.
C22_MissingEndpointFatal ==
  ( /\ provider = "oidc"
    /\ oidc.issuer = ""
    /\ oidc.authorization = "none" \/ oidc.token = "none" ) =>
    /\ ~initialized
    /\ oauthFlow = NoOAuthFlow
    /\ \A r \in Slots :
         /\ req[r].pc \in {"idle", "initialize", "done"}
         /\ req[r].pc = "done" => req[r].response = Thrown

\* the authorization endpoint is configured, the token endpoint is not, and a
\* second request has failed like the first
C22_Witness ==
  /\ provider = "oidc"
  /\ oidc.issuer = ""
  /\ oidc.authorization = "string"
  /\ oidc.token = "none"
  /\ started >= 2
  /\ req[1].pc = "done"
  /\ req[1].response = Thrown

\* C23: whenever redirect_uri is not statically configured, the redirect URL
\* of a login / signIn carries the request's own origin followed by the
\* provider's callback page, the redirect URI the callback of a request with
\* that origin passes to the code exchange, whatever requests came before.
C23_RedirectUriOwnOrigin ==
  /\ ( /\ provider = "oauth"
       /\ op = "login"
       /\ oauth.params.redirect_uri = NoRedirectUri ) =>
       run.response.redirect.redirect_uri = RedirectUri(request.origin, OAuthCallbackPage)
  /\ (provider = "oauth" /\ op = "callback" /\ run.sent # NoExchange) =>
       run.sent.redirect_uri = RedirectUri(request.origin, OAuthCallbackPage)
  /\ \A r \in Slots :
       /\ SignedIn(r) =>
            req[r].response.redirect.redirect_uri
              = RedirectUri(req[r].rq.origin, OIDCCallbackPage)
       /\ (req[r].op = "callback" /\ req[r].sent # NoExchange) =>
            req[r].sent.redirect_uri = RedirectUri(req[r].rq.origin, OIDCCallbackPage)

\* the steps of OAuthProvider.callback in the order of the code
OAuthCallbackOrder(p) ==
  <<"state.use", "validateAuthResponse", "pkce.use", "authorizationCodeGrantRequest">>
  \o (IF p.conform = "none" THEN <<>> ELSE <<"conform">>)
  \o <<"parseWwwAuthenticateChallenges", "processAuthorizationCodeOAuth2Response",
       IF p.userinfoRequest THEN "userinfo.request" ELSE "userInfoRequest", "onAuth">>

\* C26: every OAuthProvider.callback execution follows the order state use,
\* callback validation, pkce use, code exchange, conform hook, token-response
\* processing, profile fetch, onAuth; a step runs only if all earlier steps
\* succeeded, none runs after a failure, and onAuth is reached only after a
\* non-empty profile was obtained.
C26_CallbackStepOrder ==
  (provider = "oauth" /\ op = "callback") =>
    LET order == OAuthCallbackOrder(oauth)
        steps == run.steps
        ran(step) == Contains(steps, step)
    IN  /\ steps # <<>>
        /\ Len(steps) <= Len(order)
        /\ steps = SubSeq(order, 1, Len(steps))
        /\ run.response.threw <=> steps # order
        /\ ran("validateAuthResponse") =>
             ~("state" \in oauth.checks /\ DecodeCheck(request.stateCookie) = 0)
        /\ ran("pkce.use") =>
             /\ ~StateRejected("state" \in oauth.checks, request.stateCookie, request.q)
             /\ ~request.q.error
        /\ ran("authorizationCodeGrantRequest") =>
             ("pkce" \in oauth.checks => DecodeCheck(request.pkceCookie) # 0)
        /\ ran("parseWwwAuthenticateChallenges") =>
             /\ request.q.code
             /\ run.sent # NoExchange
             /\ run.grant \in TokenResponses
        /\ ran("processAuthorizationCodeOAuth2Response") =>
             OAuthConform(oauth.conform, run.grant) # "challenge"
        /\ (ran("userinfo.request") \/ ran("userInfoRequest")) =>
             OAuthConform(oauth.conform, run.grant) = "ok"
        /\ ran("onAuth") =>
             /\ run.fetched # 0
             /\ run.profile = run.fetched
             /\ run.response.user = run.fetched

\* a callback with state and pkce in force and a conform hook ran every step
C26_Witness ==
  /\ provider = "oauth"
  /\ op = "callback"
  /\ {"state", "pkce"} \subseteq oauth.checks
  /\ oauth.conform = "fix"
  /\ run.grant = "nonconforming"
  /\ Len(run.steps) = 9
  /\ ~run.response.threw

\* C27: the conform hook is optional in both engines: without a hook
\* (including a token endpoint given as an object without one) the callback
\* processes the raw token response and does not fail for that reason; with a
\* hook the value processed is the hook's result; in OAuthProvider a hook
\* returning undefined falls back to the raw response.
C27_ConformOptional ==
  /\ ( /\ provider = "oauth"
       /\ op = "callback"
       /\ run.grant \in TokenResponses ) =>
       /\ Contains(run.steps, "parseWwwAuthenticateChallenges")
       /\ Contains(run.steps, "conform") <=> oauth.conform # "none"
       /\ Contains(run.steps, "processAuthorizationCodeOAuth2Response")
            <=> (IF oauth.conform = "fix" THEN ApplyHook("fix", run.grant)
                                           ELSE run.grant) # "challenge"
  /\ \A r \in Slots :
       ( /\ req[r].op = "callback"
         /\ req[r].grant \in TokenResponses
         /\ req[r].pc # "conform" ) =>
         /\ Contains(req[r].steps, "parseWwwAuthenticateChallenges")
         /\ req[r].conformed = IF oidc.token = "conform"
                                 THEN ApplyHook("fix", req[r].grant)
                                 ELSE req[r].grant

\* C28: OIDCProvider.callback never fetches userinfo: config.profile receives
\* the validated ID-token claims of the token response, the nonce handed to
\* ID-token processing is the value nonce.use returned for this request, and
\* nonce.use happens only after the code exchange succeeded without a
\* challenge.
C28_ProfileFromIdToken ==
  \A r \in Slots :
    req[r].op = "callback" =>
      LET ran(step) == Contains(req[r].steps, step)
      IN  /\ ~ran("userInfoRequest") /\ ~ran("userinfo.request")
          /\ ran("nonce.use") =>
               /\ req[r].sent # NoExchange
               /\ req[r].grant \in TokenResponses
               /\ ~parseWwwAuthenticateChallenges(req[r].conformed)
               /\ \E i, j \in DOMAIN req[r].steps :
                    /\ i < j
                    /\ req[r].steps[i] = "authorizationCodeGrantRequest"
                    /\ req[r].steps[j] = "nonce.use"
          /\ ran("processAuthorizationCodeOpenIDResponse") =>
               req[r].nonce = DecodeCheck(req[r].rq.nonceCookie)
          /\ ran("profile") =>
               /\ req[r].conformed = "ok"
               /\ req[r].profile = req[r].fetched
               /\ req[r].profile # 0
          /\ (req[r].pc = "done" /\ ~req[r].response.threw) =>
               req[r].response.session = defaultProfile(req[r].fetched)

\* a callback with the nonce check in force returned a session
C28_Witness ==
  /\ req[1].op = "callback"
  /\ req[1].pc = "done"
  /\ ~req[1].response.threw
  /\ "nonce" \in checks
  /\ req[1].nonce = FreshValue(1, "nonce")

\* the cookies of a list that carry a token the manager encoded
TokenCookies(cookies, name) ==
  { cookies[i] : i \in { j \in DOMAIN cookies :
                           cookies[j].name = name /\ cookies[j].value.kind = "jwt" } }

\* C24: a manager built without maxAge issues access cookies with max-age
\* 3600 and refresh cookies with max-age 604800; overriding one of the two
\* leaves the other at its default; and each issued cookie's max-age is the
\* maxAge its token was encoded with.
C24_DefaultMaxAges ==
  call.op \in {"createCookies", "handleResponse", "handleRequest"} =>
    /\ \A c \in TokenCookies(call.response.cookies, AccessTokenCookie) :
         /\ c.maxAge = IF manager.config.maxAge.accessToken = Undefined
                         THEN 3600 ELSE manager.config.maxAge.accessToken
         /\ c.value.exp - c.value.iat = c.maxAge
    /\ \A c \in TokenCookies(call.response.cookies, RefreshTokenCookie) :
         /\ c.maxAge = IF manager.config.maxAge.refreshToken = Undefined
                         THEN 604800 ELSE manager.config.maxAge.refreshToken
         /\ c.value.exp - c.value.iat = c.maxAge

\* only the refresh max-age is configured and a session with both tokens is
\* issued
C24_Witness ==
  /\ manager.config.maxAge = MaxAge(Undefined, 120)
  /\ call.op = "handleResponse"
  /\ \E c \in TokenCookies(call.response.cookies, AccessTokenCookie) : c.maxAge = 3600
  /\ \E c \in TokenCookies(call.response.cookies, RefreshTokenCookie) : c.maxAge = 120

\* C25: CredentialsProvider.signIn, callback and signOut each return an
\* empty response, whatever the request, and leave the provider's state as
\* it was.
C25_CredentialsEmpty ==
  [][ provider = "credentials" =>
        /\ config' = config
        /\ applied' # NoApplication =>
             /\ applied'.fn \in {"signIn", "callback", "signOut"}
             /\ applied'.result = EmptyResponse ]_vars

\* signIn has answered a request that carries a code and check cookies
C25_Witness ==
  /\ provider = "credentials"
  /\ applied.fn = "signIn"
  /\ applied.args[1].q.code
  /\ applied.args[1].stateCookie # 0
  /\ applied.result = EmptyResponse

\* the redirect URLs the providers have just produced
RedirectUrls ==
  (IF provider = "oauth" /\ op = "login" THEN {run.response.redirect} ELSE {})
  \cup { req[r].response.redirect :
           r \in { x \in Slots : req[x].op = "signIn" /\ req[x].pc = "done"
                                   /\ ~req[x].response.threw } }
  \cup (IF provider \in {"github", "google"} /\ applied # NoApplication
          THEN {applied.result[1]} ELSE {})

\* C30: no redirect URL produced by OAuthProvider.login, OIDCProvider.signIn,
\* GitHub.getAuthorizationUrl or Google.login carries the client secret.
C30_SecretNotInUrl ==
  \A url \in RedirectUrls : url.client_secret = ""

\* the endpoint descriptor whose fields win the merge `{ ...default, ...user }`
Winner(user, default) ==
  IF user.kind = "object" /\ user.hasParams THEN user ELSE default

\* C29: mergeOAuthOptions takes the id from the user, else from the defaults;
\* builds the default pages from that id unless the user sets them; takes
\* the checks from the user, else the defaults, else ['pkce']; takes each
\* endpoint url from the user's string or object, else from the defaults;
\* and the merged authorization params are client_id = the user's clientId,
\* response_type = code, and otherwise the params of the descriptor that won
\* the merge.
C29_MergedOptions ==
  applied.fn = "mergeOAuthOptions" =>
    LET userOptions == applied.args[1]
        defaultOptions == applied.args[2]
        merged == applied.result[1]
        id == IF userOptions.id # "" THEN userOptions.id ELSE defaultOptions.id
    IN  /\ merged.id = id
        /\ merged.pages.login = IF userOptions.pages.login # ""
                                  THEN userOptions.pages.login ELSE "/auth/login/" \o id
        /\ merged.pages.callback = IF userOptions.pages.callback # ""
                                     THEN userOptions.pages.callback
                                     ELSE "/auth/callback/" \o id
        /\ merged.checks = IF userOptions.checks # <<>> THEN userOptions.checks[1]
                           ELSE IF defaultOptions.checks # <<>> THEN defaultOptions.checks[1]
                           ELSE {"pkce"}
        /\ \A e \in {"authorization", "token", "userinfo"} :
             merged.endpoints[e].url =
               IF userOptions.endpoints[e].url # "" THEN userOptions.endpoints[e].url
               ELSE defaultOptions.endpoints[e].url
        /\ merged.endpoints.authorization.params.client_id = userOptions.clientId
        /\ merged.endpoints.authorization.params.response_type = "code"
        /\ merged.endpoints.authorization.params.scope =
             Winner(userOptions.endpoints.authorization,
                    defaultOptions.endpoints.authorization).params.scope

====
